---- MODULE Spec2Model ----
(***************************************************************************)
(* A model of the hybrid decision and caching engine of the DistilBERT     *)
(* FastAPI service: the keyword scorer, the classification step            *)
(* (direct question answering, then neural + keyword fusion), the mode     *)
(* router, the response composer, and the two caches (QACache and          *)
(* SimpleCache).                                                           *)
(*                                                                         *)
(* Texts, labels, keywords and answers are strings; TLC evaluates Len,     *)
(* SubSeq and \o on them.  Confidences are exact fractions of One: the     *)
(* source computes in floating point, the model in exact arithmetic, so    *)
(* the two can differ only where two floats tie within rounding error.     *)
(* The service runs on one event loop and calls both pipelines             *)
(* synchronously, so a handler runs from its first line to its return      *)
(* without another handler interleaving: each handler is one action.       *)
(*                                                                         *)
(* A local variable of the source that is read more than once is bound as  *)
(* the parameter of a local operator (LET F(x) == ... IN F(e)), so that    *)
(* its value is computed once where the source computes it once.           *)
(***************************************************************************)
EXTENDS Integers, Sequences, FiniteSets, TLC

(***************************************************************************)
(* Confidence arithmetic.  One stands for the float 1.0; every keyword     *)
(* count of the table divides 420, and the factors 1.1 and 1.2 are exact   *)
(* on multiples of ten units.                                              *)
(***************************************************************************)
One == 420 * 100

Frac(n, d) == (n * One) \div d

Min(a, b) == IF a <= b THEN a ELSE b

(***************************************************************************)
(* config.py                                                               *)
(***************************************************************************)
intent_labels ==
    <<"product_features", "product_technical_specs", "product_integration",
      "product_ai_capabilities", "product_security", "product_customization",
      "pricing_basic", "pricing_professional", "pricing_enterprise",
      "pricing_api", "pricing_add_ons", "pricing_comparison",
      "setup_guide", "integration_guide", "optimization_guide",
      "troubleshooting_guide", "advanced_features", "deployment_strategies",
      "privacy_policy", "terms_of_service", "data_retention",
      "security_policy", "compliance_standards",
      "account_creation", "account_management", "billing_support", "account_security",
      "company_about", "company_team", "company_careers",
      "conversational_greeting", "conversational_thanks", "conversational_goodbye",
      "conversational_chitchat", "conversational_feedback",
      "unknown">>

qa_confidence_threshold == Frac(3, 10)

INTENT_KEYWORDS ==
    <<[intent |-> "product_features",
       keywords |-> <<"features", "capabilities", "functionality", "what can", "platform", "ai", "chatbot">>],
      [intent |-> "product_technical_specs",
       keywords |-> <<"technical", "specs", "requirements", "architecture", "performance", "cpu", "memory">>],
      [intent |-> "product_integration",
       keywords |-> <<"integration", "api", "connect", "crm", "platforms", "third party", "webhook">>],
      [intent |-> "product_ai_capabilities",
       keywords |-> <<"ai", "artificial intelligence", "nlp", "machine learning", "sentiment", "language">>],
      [intent |-> "product_security",
       keywords |-> <<"security", "encryption", "privacy", "gdpr", "compliance", "authentication">>],
      [intent |-> "product_customization",
       keywords |-> <<"customize", "branding", "white label", "theme", "personality", "configuration">>],
      [intent |-> "pricing_basic",
       keywords |-> <<"basic plan", "starter", "small business", "cheap", "affordable", "29", "39">>],
      [intent |-> "pricing_professional",
       keywords |-> <<"professional", "business", "99", "129", "growing", "advanced">>],
      [intent |-> "pricing_enterprise",
       keywords |-> <<"enterprise", "unlimited", "custom", "499", "large", "organization">>],
      [intent |-> "pricing_api",
       keywords |-> <<"api pricing", "pay per use", "developer", "calls", "usage based">>],
      [intent |-> "pricing_add_ons",
       keywords |-> <<"add-on", "additional", "extra", "premium", "voice", "analytics">>],
      [intent |-> "pricing_comparison",
       keywords |-> <<"compare", "difference", "plans", "which plan", "vs", "versus">>],
      [intent |-> "setup_guide",
       keywords |-> <<"setup", "getting started", "how to start", "configuration", "initial">>],
      [intent |-> "integration_guide",
       keywords |-> <<"how to integrate", "connect", "embed", "implementation">>],
      [intent |-> "optimization_guide",
       keywords |-> <<"optimize", "improve", "performance", "best practices">>],
      [intent |-> "troubleshooting_guide",
       keywords |-> <<"troubleshoot", "problem", "issue", "error", "not working">>],
      [intent |-> "advanced_features",
       keywords |-> <<"advanced", "custom", "sophisticated", "complex">>],
      [intent |-> "deployment_strategies",
       keywords |-> <<"deploy", "production", "rollout", "implementation">>],
      [intent |-> "privacy_policy",
       keywords |-> <<"privacy", "data collection", "personal information">>],
      [intent |-> "terms_of_service",
       keywords |-> <<"terms", "conditions", "agreement", "usage policy">>],
      [intent |-> "data_retention",
       keywords |-> <<"data retention", "how long", "storage", "delete">>],
      [intent |-> "security_policy",
       keywords |-> <<"security policy", "protection", "safety">>],
      [intent |-> "compliance_standards",
       keywords |-> <<"compliance", "certification", "standards", "audit">>],
      [intent |-> "account_creation",
       keywords |-> <<"create account", "sign up", "register", "new account">>],
      [intent |-> "account_management",
       keywords |-> <<"manage account", "profile", "settings", "update">>],
      [intent |-> "billing_support",
       keywords |-> <<"billing", "payment", "invoice", "refund", "subscription">>],
      [intent |-> "account_security",
       keywords |-> <<"account security", "password", "login", "authentication">>],
      [intent |-> "company_about",
       keywords |-> <<"about", "company", "who are you", "background", "story">>],
      [intent |-> "company_team",
       keywords |-> <<"team", "employees", "staff", "founders", "leadership">>],
      [intent |-> "company_careers",
       keywords |-> <<"career", "job", "hiring", "work", "employment">>],
      [intent |-> "conversational_greeting",
       keywords |-> <<"halo", "hai", "hello", "hi", "selamat pagi", "selamat siang", "good morning", "good afternoon", "hey", "morning">>],
      [intent |-> "conversational_thanks",
       keywords |-> <<"terima kasih", "thanks", "thank you", "appreciate", "grateful">>],
      [intent |-> "conversational_goodbye",
       keywords |-> <<"selamat tinggal", "goodbye", "bye", "see you", "sampai jumpa", "take care", "farewell">>],
      [intent |-> "conversational_chitchat",
       keywords |-> <<"bagaimana kabar", "apa kabar", "how are you", "what's up", "nice to meet">>],
      [intent |-> "conversational_feedback",
       keywords |-> <<"feedback", "suggestion", "comment", "opinion", "review">>]>>

KNOWLEDGE_INTENTS ==
    {"product_features", "product_technical_specs", "product_integration",
     "product_ai_capabilities", "product_security", "product_customization",
     "pricing_basic", "pricing_professional", "pricing_enterprise",
     "pricing_api", "pricing_add_ons", "pricing_comparison",
     "setup_guide", "integration_guide", "optimization_guide",
     "troubleshooting_guide", "advanced_features", "deployment_strategies",
     "privacy_policy", "terms_of_service", "data_retention",
     "security_policy", "compliance_standards",
     "account_creation", "account_management", "billing_support", "account_security",
     "company_about", "company_team", "company_careers"}

CONVERSATIONAL_INTENTS ==
    {"conversational_greeting", "conversational_thanks", "conversational_goodbye",
     "conversational_chitchat", "conversational_feedback"}

(***************************************************************************)
(* Python string operations, as the handlers use them.                     *)
(***************************************************************************)
Range(s) == {s[i] : i \in 1..Len(s)}

CharAt(s, i) == SubSeq(s, i, i)

UpperChars == <<"A", "B", "C", "D", "E", "F", "G", "H", "I", "J", "K", "L", "M",
                "N", "O", "P", "Q", "R", "S", "T", "U", "V", "W", "X", "Y", "Z">>

LowerChars == <<"a", "b", "c", "d", "e", "f", "g", "h", "i", "j", "k", "l", "m",
                "n", "o", "p", "q", "r", "s", "t", "u", "v", "w", "x", "y", "z">>

Digits == <<"0", "1", "2", "3", "4", "5", "6", "7", "8", "9">>

Whitespace == {" ", "\t", "\n"}

\* \w of the re module, on the characters the model's texts use.
WordChars == Range(UpperChars) \cup Range(LowerChars) \cup Range(Digits) \cup {"_"}

LowerChar(c) ==
    IF \E i \in 1..Len(UpperChars) : UpperChars[i] = c
    THEN LowerChars[CHOOSE i \in 1..Len(UpperChars) : UpperChars[i] = c]
    ELSE c

RECURSIVE LowerFrom(_, _)
LowerFrom(s, i) ==
    IF i > Len(s) THEN "" ELSE LowerChar(CharAt(s, i)) \o LowerFrom(s, i + 1)

\* str.lower()
Lower(s) == LowerFrom(s, 1)

\* s[i:].startswith(sub), i counted from 1
MatchesAt(s, sub, i) ==
    /\ i + Len(sub) - 1 <= Len(s)
    /\ SubSeq(s, i, i + Len(sub) - 1) = sub

\* sub in s
Contains(s, sub) == \E i \in 1..(Len(s) + 1) : MatchesAt(s, sub, i)

StartsWith(s, sub) == MatchesAt(s, sub, 1)

EndsWith(s, sub) == Len(sub) <= Len(s) /\ MatchesAt(s, sub, Len(s) - Len(sub) + 1)

RECURSIVE LStrip(_)
LStrip(s) ==
    IF Len(s) > 0 /\ CharAt(s, 1) \in Whitespace THEN LStrip(SubSeq(s, 2, Len(s))) ELSE s

RECURSIVE RStrip(_)
RStrip(s) ==
    IF Len(s) > 0 /\ CharAt(s, Len(s)) \in Whitespace
    THEN RStrip(SubSeq(s, 1, Len(s) - 1)) ELSE s

\* str.strip()
Strip(s) == RStrip(LStrip(s))

\* re.sub(r'\s+', ' ', s): every maximal run of whitespace becomes one space
RECURSIVE CollapseFrom(_, _)
CollapseFrom(s, i) ==
    IF i > Len(s) THEN ""
    ELSE IF CharAt(s, i) \in Whitespace
         THEN IF i > 1 /\ CharAt(s, i - 1) \in Whitespace
              THEN CollapseFrom(s, i + 1)
              ELSE " " \o CollapseFrom(s, i + 1)
         ELSE CharAt(s, i) \o CollapseFrom(s, i + 1)

CollapseWhitespace(s) == CollapseFrom(s, 1)

\* re.sub(rf'\b{old}\b', new, s, flags=re.IGNORECASE), scanning from i
RECURSIVE ReplaceWordFrom(_, _, _, _)
ReplaceWordFrom(s, old, new, i) ==
    IF i > Len(s) THEN ""
    ELSE IF /\ i + Len(old) - 1 <= Len(s)
            /\ Lower(SubSeq(s, i, i + Len(old) - 1)) = old
            /\ (i = 1 \/ CharAt(s, i - 1) \notin WordChars)
            /\ (i + Len(old) - 1 = Len(s) \/ CharAt(s, i + Len(old)) \notin WordChars)
         THEN new \o ReplaceWordFrom(s, old, new, i + Len(old))
         ELSE CharAt(s, i) \o ReplaceWordFrom(s, old, new, i + 1)

ReplaceWord(s, old, new) == ReplaceWordFrom(s, old, new, 1)

\* len(s.split())
RECURSIVE WordCountFrom(_, _)
WordCountFrom(s, i) ==
    IF i > Len(s) THEN 0
    ELSE (IF /\ CharAt(s, i) \notin Whitespace
             /\ (i = 1 \/ CharAt(s, i - 1) \in Whitespace)
          THEN 1 ELSE 0) + WordCountFrom(s, i + 1)

WordCount(s) == WordCountFrom(s, 1)

(***************************************************************************)
(* DistilBERTHandler: text preparation and the keyword scorer.             *)
(***************************************************************************)
replacements ==
    <<<<"gmn", "bagaimana">>, <<"dmn", "dimana">>, <<"yg", "yang">>,
      <<"tdk", "tidak">>, <<"ga", "tidak">>, <<"gak", "tidak">>>>

RECURSIVE ApplyReplacements(_, _)
ApplyReplacements(s, i) ==
    IF i > Len(replacements) THEN s
    ELSE ApplyReplacements(ReplaceWord(s, replacements[i][1], replacements[i][2]), i + 1)

_preprocess_text(text) == ApplyReplacements(CollapseWhitespace(Strip(text)), 1)

\* [kw for kw in keywords if kw in text.lower()], as the indices of the matches
Matches(keywords, text_lower) ==
    {j \in 1..Len(keywords) : Contains(text_lower, keywords[j])}

\* the matches counted as exact word matches
ExactMatches(keywords, text_lower) ==
    LET padded == " " \o text_lower \o " "
    IN  {j \in Matches(keywords, text_lower) :
            \/ Contains(padded, " " \o keywords[j] \o " ")
            \/ StartsWith(text_lower, keywords[j])
            \/ EndsWith(text_lower, keywords[j])}

word_bonus_unit == Frac(15, 100)

\* intent_scores[intent] of _keyword_classification, for one row of the table
final_score(keywords, text_lower) ==
    LET Score(m, w) ==
            IF m > 0 THEN Min(Frac(m, Len(keywords)) + w * word_bonus_unit, One) ELSE 0
    IN  Score(Cardinality(Matches(keywords, text_lower)),
              Cardinality(ExactMatches(keywords, text_lower)))

\* max taking the last of the keys that hold the largest value
Mutant_FirstMax(idx, val) ==
    CHOOSE i \in idx :
        /\ \A j \in idx : val[j] <= val[i]
        /\ \A j \in idx : j > i => val[j] < val[i]

\* max(d, key=d.get) over a dict d: the first key, in insertion order, that
\* holds the largest value; val is the sequence of the values in that order
FirstMax(idx, val) ==
    CHOOSE i \in idx :
        /\ \A j \in idx : val[j] <= val[i]
        /\ \A j \in idx : j < i => val[j] < val[i]

intent_scores(text) ==
    LET text_lower == Lower(text)
    IN  [i \in 1..Len(INTENT_KEYWORDS) |->
            final_score(INTENT_KEYWORDS[i].keywords, text_lower)]

\* the keyword result with the score reported as it is, unscaled
Mutant_keyword_classification(text) ==
    LET Result(best, best_score) ==
            [intent |-> IF best_score > 0 THEN INTENT_KEYWORDS[best].intent
                        ELSE "unknown",
             confidence |-> best_score,
             source |-> "keyword_matching"]
        Best(scores, best) == Result(best, scores[best])
        Scored(scores) == Best(scores, FirstMax(DOMAIN scores, scores))
    IN  Scored(intent_scores(text))

_keyword_classification(text) ==
    LET Result(best, best_score) ==
            [intent |-> IF best_score > 0 THEN INTENT_KEYWORDS[best].intent
                        ELSE "unknown",
             confidence |-> Min((best_score * 11) \div 10, Frac(9, 10)),
             source |-> "keyword_matching"]
        Best(scores, best) == Result(best, scores[best])
        Scored(scores) == Best(scores, FirstMax(DOMAIN scores, scores))
    IN  Scored(intent_scores(text))

(***************************************************************************)
(* The texts of the model.  TLC evaluates a constant function once, so     *)
(* the operators that work on a whole text are read through the tables     *)
(* below, which hold their value on every text of the model.               *)
(***************************************************************************)
Texts ==
    {"", "zzzz", "hello", "good morning", "starter",
     "xdevelopers recalls pay per users", "billing refund", "api pricing",
     "  Custom  Plans? "}

preprocessed == [t \in Texts |-> _preprocess_text(t)]

CleanedTexts == {preprocessed[t] : t \in Texts}

keyword_classification == [t \in CleanedTexts |-> _keyword_classification(t)]

(***************************************************************************)
(* Exceptions.  An operator that models a function that can raise returns  *)
(* a record whose field raised tells which of the two happened; error is   *)
(* str(e), the exception's message.                                        *)
(***************************************************************************)
Raise(e) == [raised |-> TRUE, error |-> e]

Return(v) == [raised |-> FALSE, value |-> v]

(***************************************************************************)
(* The external pipelines.  A call either raises or returns; what it       *)
(* returns is an input of the model.                                       *)
(***************************************************************************)
PipelineRaises == [kind |-> "raise"]

\* qa_pipeline(question=..., context=...) -> {'answer', 'score', 'start', 'end'}
QAOutput(answer, score) == [kind |-> "ok", answer |-> answer, score |-> score]

\* intent_classifier(text) -> [{'label', 'score'}, ...]
ClassifierOutput(results) == [kind |-> "ok", results |-> results]

(***************************************************************************)
(* DistilBERTHandler: the direct question-answering step.                  *)
(***************************************************************************)
campus_contexts ==
    {"jadwal_kuliah", "pembayaran", "reset_password", "faq_informasi", "smalltalk",
     "default"}

\* context_scores of _select_best_context: the number of keywords of each
\* row that occur in the text
context_scores(text) ==
    LET text_lower == Lower(text)
    IN  [i \in 1..Len(INTENT_KEYWORDS) |->
            Cardinality(Matches(INTENT_KEYWORDS[i].keywords, text_lower))]

\* (key of the chosen campus context, intent)
_select_best_context(text) ==
    LET Chosen(best_intent) ==
            [context |-> IF best_intent \in campus_contexts
                         THEN best_intent ELSE "default",
             intent |-> best_intent]
        Select(scores, scored) ==
            IF scored # {}
            THEN Chosen(INTENT_KEYWORDS[FirstMax(scored, scores)].intent)
            ELSE [context |-> "default", intent |-> "faq_informasi"]
        Scored(scores) == Select(scores, {i \in DOMAIN scores : scores[i] > 0})
    IN  Scored(context_scores(text))

best_context == [t \in CleanedTexts |-> _select_best_context(t)]

_question_answering_approach(text, qa) ==
    IF qa.kind = "raise"
    THEN [intent |-> "unknown", confidence |-> 0,
          method |-> "question_answering_error"]
    ELSE LET Result(context_intent, answer, confidence) ==
                 IF confidence >= Frac(2, 10) /\ Len(answer) > 3
                 THEN [intent |-> context_intent,
                       confidence |-> Min((confidence * 12) \div 10, Frac(95, 100)),
                       method |-> "question_answering"]
                 ELSE [intent |-> "unknown", confidence |-> confidence,
                       method |-> "question_answering_low_confidence"]
         IN  Result(best_context[text].intent, Strip(qa.answer), qa.score)

(***************************************************************************)
(* DistilBERTHandler: neural + keyword classification.                     *)
(***************************************************************************)
\* s.split('_')[1] for a string that holds a '_'
RECURSIVE UpTo(_, _, _)
UpTo(s, c, i) ==
    IF i > Len(s) \/ CharAt(s, i) = c THEN "" ELSE CharAt(s, i) \o UpTo(s, c, i + 1)

RECURSIVE IndexOf(_, _, _)
IndexOf(s, c, i) ==
    IF i > Len(s) THEN 0 ELSE IF CharAt(s, i) = c THEN i ELSE IndexOf(s, c, i + 1)

SecondField(s, c) == UpTo(s, c, IndexOf(s, c, 1) + 1)

DigitValue(c) == (CHOOSE i \in 1..Len(Digits) : Digits[i] = c) - 1

RECURSIVE DigitsValue(_, _)
DigitsValue(s, acc) ==
    IF s = "" THEN acc
    ELSE DigitsValue(SubSeq(s, 2, Len(s)), 10 * acc + DigitValue(CharAt(s, 1)))

AllDigits(s) == Len(s) > 0 /\ \A i \in 1..Len(s) : CharAt(s, i) \in Range(Digits)

\* int(s): surrounding whitespace and one sign are accepted
ParseInt(s) ==
    LET Value(t, signed, body) ==
            IF ~AllDigits(body) THEN Raise("ValueError")
            ELSE Return(IF signed /\ CharAt(t, 1) = "-"
                        THEN 0 - DigitsValue(body, 0) ELSE DigitsValue(body, 0))
        Signed(t, signed) == Value(t, signed, IF signed THEN SubSeq(t, 2, Len(t)) ELSE t)
        Stripped(t) == Signed(t, Len(t) > 0 /\ CharAt(t, 1) \in {"+", "-"})
    IN  Stripped(Strip(s))

\* INTENT_KEYWORDS[key]
HasKeywords(key) == \E i \in 1..Len(INTENT_KEYWORDS) : INTENT_KEYWORDS[i].intent = key

KeywordsOf(key) ==
    INTENT_KEYWORDS[CHOOSE i \in 1..Len(INTENT_KEYWORDS) : INTENT_KEYWORDS[i].intent = key].keywords

campus_intents ==
    <<"jadwal_kuliah", "pembayaran", "reset_password", "faq_informasi", "smalltalk">>

\* the if/elif chain of _map_label_to_intent over the campus intents, from
\* the i-th on; looking up an intent the table does not hold raises KeyError
RECURSIVE ContextBasedMapping(_, _)
ContextBasedMapping(text_lower, i) ==
    IF i > Len(campus_intents) THEN Return("unknown")
    ELSE IF ~HasKeywords(campus_intents[i]) THEN Raise("KeyError")
    ELSE IF Matches(KeywordsOf(campus_intents[i]), text_lower) # {}
         THEN Return(campus_intents[i])
         ELSE ContextBasedMapping(text_lower, i + 1)

_map_label_to_intent(label, text) ==
    LET Mapped(idx) ==
            IF ~idx.raised /\ 0 <= idx.value /\ idx.value < Len(intent_labels)
            THEN Return(intent_labels[idx.value + 1])
            ELSE ContextBasedMapping(Lower(text), 1)
    IN  Mapped(IF StartsWith(label, "LABEL_")
               THEN ParseInt(SecondField(label, "_")) ELSE Raise("ValueError"))

\* max(intent_results, key=lambda x: x['score'])
BestResult(results) ==
    results[FirstMax(DOMAIN results, [i \in DOMAIN results |-> results[i].score])]

\* the fusion with the keyword rule tried before the agreement rule
Mutant_hybrid_rule_order(text, cls) ==
    LET Fuse(keyword_result, neural_confidence, mapped) ==
            IF mapped.raised THEN keyword_result
            ELSE IF keyword_result.confidence > neural_confidence
            THEN [intent |-> keyword_result.intent,
                  confidence |-> keyword_result.confidence,
                  source |-> "keyword_classification"]
            ELSE IF /\ mapped.value = keyword_result.intent
                    /\ neural_confidence > Frac(4, 10)
                    /\ keyword_result.confidence > Frac(3, 10)
            THEN [intent |-> mapped.value,
                  confidence |-> Min((neural_confidence * 11) \div 10, Frac(85, 100)),
                  source |-> "hybrid_classification"]
            ELSE [intent |-> mapped.value,
                  confidence |-> neural_confidence,
                  source |-> "neural_classification"]
        Best(keyword_result, best_result) ==
            Fuse(keyword_result, best_result.score,
                 _map_label_to_intent(best_result.label, text))
        Hybrid(keyword_result) ==
            IF Len(cls.results) > 0
            THEN Best(keyword_result, BestResult(cls.results))
            ELSE keyword_result
    IN  IF cls.kind = "raise" THEN keyword_classification[text]
        ELSE Hybrid(keyword_classification[text])

\* the fusion with a classifier failure answered by the error fallback
Mutant_hybrid_failure_fallback(text, cls) ==
    LET Fuse(keyword_result, neural_confidence, mapped) ==
            IF mapped.raised THEN keyword_result
            ELSE IF /\ mapped.value = keyword_result.intent
                    /\ neural_confidence > Frac(4, 10)
                    /\ keyword_result.confidence > Frac(3, 10)
            THEN [intent |-> mapped.value,
                  confidence |-> Min((neural_confidence * 11) \div 10, Frac(85, 100)),
                  source |-> "hybrid_classification"]
            ELSE IF keyword_result.confidence > neural_confidence
            THEN [intent |-> keyword_result.intent,
                  confidence |-> keyword_result.confidence,
                  source |-> "keyword_classification"]
            ELSE [intent |-> mapped.value,
                  confidence |-> neural_confidence,
                  source |-> "neural_classification"]
        Best(keyword_result, best_result) ==
            Fuse(keyword_result, best_result.score,
                 _map_label_to_intent(best_result.label, text))
    IN  IF cls.kind = "raise" \/ Len(cls.results) = 0
        THEN [intent |-> "unknown", confidence |-> Frac(1, 10),
              source |-> "fallback_error"]
        ELSE Best(keyword_classification[text], BestResult(cls.results))

_hybrid_intent_classification(text, cls) ==
    LET Fuse(keyword_result, neural_confidence, mapped) ==
            IF mapped.raised THEN keyword_result
            ELSE IF /\ mapped.value = keyword_result.intent
                    /\ neural_confidence > Frac(4, 10)
                    /\ keyword_result.confidence > Frac(3, 10)
            THEN [intent |-> mapped.value,
                  confidence |-> Min((neural_confidence * 11) \div 10, Frac(85, 100)),
                  source |-> "hybrid_classification"]
            ELSE IF keyword_result.confidence > neural_confidence
            THEN [intent |-> keyword_result.intent,
                  confidence |-> keyword_result.confidence,
                  source |-> "keyword_classification"]
            ELSE [intent |-> mapped.value,
                  confidence |-> neural_confidence,
                  source |-> "neural_classification"]
        Best(keyword_result, best_result) ==
            Fuse(keyword_result, best_result.score,
                 _map_label_to_intent(best_result.label, text))
        Hybrid(keyword_result) ==
            IF Len(cls.results) > 0
            THEN Best(keyword_result, BestResult(cls.results))
            ELSE keyword_result
    IN  IF cls.kind = "raise" THEN keyword_classification[text]
        ELSE Hybrid(keyword_classification[text])

_fallback_classification ==
    [intent |-> "unknown", confidence |-> Frac(1, 10), source |-> "fallback_error"]

\* DistilBERTHandler.classify_intent.  loaded is self.is_loaded; qa and cls
\* are what the two pipelines do if they are called.
classify_intent(loaded, text, qa, cls) ==
    IF ~loaded THEN Raise("Models not loaded. Call initialize() first.")
    ELSE LET Hybrid(intent_result) ==
                 Return([intent |-> intent_result.intent,
                         confidence |-> intent_result.confidence,
                         source |-> intent_result.source])
             Direct(cleaned_text, qa_result) ==
                 IF qa_result.confidence >= Frac(3, 10)
                 THEN Return([intent |-> qa_result.intent,
                              confidence |-> qa_result.confidence,
                              source |-> "distilbert_qa"])
                 ELSE Hybrid(_hybrid_intent_classification(cleaned_text, cls))
             Cleaned(cleaned_text) ==
                 Direct(cleaned_text, _question_answering_approach(cleaned_text, qa))
         IN  Cleaned(preprocessed[text])

\* the pipelines classify_intent calls, in the order it calls them
ClassifyCalls(loaded, text, qa, cls) ==
    IF ~loaded THEN <<>>
    ELSE IF _question_answering_approach(preprocessed[text], qa).confidence
                >= Frac(3, 10)
         THEN <<"qa_pipeline">>
         ELSE <<"qa_pipeline", "intent_classifier">>

(***************************************************************************)
(* HybridResponseGenerator: the mode router.                               *)
(***************************************************************************)
\* the router with the threshold test weakened to >=
Mutant_determine_mode(intent, confidence) ==
    IF intent \in CONVERSATIONAL_INTENTS THEN "conversational"
    ELSE IF intent \in KNOWLEDGE_INTENTS /\ confidence >= qa_confidence_threshold
         THEN "knowledge"
         ELSE "fallback"

\* the router with the threshold tested before the conversational set
Mutant_determine_mode_threshold_first(intent, confidence) ==
    IF confidence <= qa_confidence_threshold THEN "fallback"
    ELSE IF intent \in CONVERSATIONAL_INTENTS THEN "conversational"
    ELSE IF intent \in KNOWLEDGE_INTENTS THEN "knowledge"
    ELSE "fallback"

_determine_mode(intent, confidence) ==
    IF intent \in CONVERSATIONAL_INTENTS THEN "conversational"
    ELSE IF intent \in KNOWLEDGE_INTENTS /\ confidence > qa_confidence_threshold
         THEN "knowledge"
         ELSE "fallback"

(***************************************************************************)
(* Dictionaries.  A Python dict is modelled as the sequence of its items   *)
(* in insertion order: assigning to a stored key keeps the key's place,    *)
(* assigning to a new key appends, and min() over the keys returns the     *)
(* first minimal one in that order.                                        *)
(***************************************************************************)
None == <<>>

Some(v) == <<v>>

HasKey(items, key) == \E i \in DOMAIN items : items[i].key = key

ItemOf(items, key) == items[CHOOSE i \in DOMAIN items : items[i].key = key]

DelKey(items, key) == SelectSeq(items, LAMBDA item : item.key # key)

SetItem(items, item) ==
    IF HasKey(items, item.key)
    THEN [i \in DOMAIN items |->
              IF items[i].key = item.key THEN item ELSE items[i]]
    ELSE Append(items, item)

\* min(items.keys(), key=lambda k: items[k].timestamp), items not empty
OldestKey(items) ==
    LET i == CHOOSE i \in DOMAIN items :
                 /\ \A j \in DOMAIN items : items[i].timestamp <= items[j].timestamp
                 /\ \A j \in 1..(i - 1) : items[j].timestamp > items[i].timestamp
    IN  items[i].key

(***************************************************************************)
(* QACache, the Answer Cache.  A cache value c is [cache, hits, misses];   *)
(* an entry is [key, result, timestamp, ttl].  t is what datetime.now()    *)
(* returns during the call.  The capacity and the default time-to-live are *)
(* the constructor's defaults, 1000 and 300, scaled down.                  *)
(***************************************************************************)
max_size == 2

default_ttl == 1

\* md5 of the combined string, taken to be collision-free on the model's keys
_generate_key(question, context) == question \o "||" \o context

QACache_get(c, question, context, t) ==
    LET key == _generate_key(question, context) IN
    IF HasKey(c.cache, key)
    THEN LET entry == ItemOf(c.cache, key) IN
         IF t - entry.timestamp < entry.ttl
         THEN [cache |-> c.cache, hits |-> c.hits + 1, misses |-> c.misses,
               result |-> Some(entry.result)]
         ELSE [cache |-> DelKey(c.cache, key), hits |-> c.hits,
               misses |-> c.misses + 1, result |-> None]
    ELSE [cache |-> c.cache, hits |-> c.hits, misses |-> c.misses + 1,
          result |-> None]

\* set with the eviction step left out
Mutant_QACache_set(c, question, context, result, ttl, t) ==
    [c EXCEPT !.cache =
        SetItem(c.cache, [key |-> _generate_key(question, context),
                          result |-> result, timestamp |-> t,
                          ttl |-> IF ttl = None \/ ttl = Some(0)
                                  THEN default_ttl ELSE ttl[1]])]

\* ttl is None or Some(n); "ttl or self.default_ttl" takes the default for
\* None and for 0
QACache_set(c, question, context, result, ttl, t) ==
    LET kept == IF Len(c.cache) >= max_size
                THEN DelKey(c.cache, OldestKey(c.cache))
                ELSE c.cache
    IN  [c EXCEPT !.cache =
            SetItem(kept, [key |-> _generate_key(question, context),
                           result |-> result, timestamp |-> t,
                           ttl |-> IF ttl = None \/ ttl = Some(0)
                                   THEN default_ttl ELSE ttl[1]])]

QACache_clear(c) == [cache |-> <<>>, hits |-> 0, misses |-> 0]

(***************************************************************************)
(* SimpleCache, the Classification Cache.  A cache value c is              *)
(* [cache, timestamps], the two dicts the object keeps: items [key,        *)
(* result] and items [key, timestamp].  t is what time.time() returns      *)
(* during the call.  ttl_seconds is the constructor's default, 300, scaled *)
(* down; max_size is the same default as QACache's.                        *)
(***************************************************************************)
ttl_seconds == 1

\* the key being the text as given, neither lower-cased nor stripped
Mutant_get_cache_key(text) == text

\* md5 of text.lower().strip(), taken to be collision-free
_get_cache_key(text) == Strip(Lower(text))

_is_expired(c, key, t) ==
    IF ~HasKey(c.timestamps, key) THEN TRUE
    ELSE t - ItemOf(c.timestamps, key).timestamp > ttl_seconds

\* the cleanup popping the expired keys from the values alone
Mutant_cleanup_expired(c, t) ==
    LET expired_keys == {c.timestamps[i].key : i \in
                            {j \in DOMAIN c.timestamps :
                                 t - c.timestamps[j].timestamp > ttl_seconds}}
    IN  [cache |-> SelectSeq(c.cache, LAMBDA item : item.key \notin expired_keys),
         timestamps |-> c.timestamps]

_cleanup_expired(c, t) ==
    LET expired_keys == {c.timestamps[i].key : i \in
                            {j \in DOMAIN c.timestamps :
                                 t - c.timestamps[j].timestamp > ttl_seconds}}
    IN  [cache |-> SelectSeq(c.cache, LAMBDA item : item.key \notin expired_keys),
         timestamps |-> SelectSeq(c.timestamps,
                                  LAMBDA item : item.key \notin expired_keys)]

\* get leaves the cache as it is
SimpleCache_get(c, text, t) ==
    LET key == _get_cache_key(text) IN
    IF HasKey(c.cache, key) /\ ~_is_expired(c, key, t)
    THEN Some(ItemOf(c.cache, key).result)
    ELSE None

SimpleCache_set(c, text, result, t) ==
    LET cleaned == _cleanup_expired(c, t)
        kept == IF Len(cleaned.cache) >= max_size
                THEN LET oldest_key == OldestKey(cleaned.timestamps) IN
                     [cache |-> DelKey(cleaned.cache, oldest_key),
                      timestamps |-> DelKey(cleaned.timestamps, oldest_key)]
                ELSE cleaned
        key == _get_cache_key(text)
    IN  [cache |-> SetItem(kept.cache, [key |-> key, result |-> result]),
         timestamps |-> SetItem(kept.timestamps, [key |-> key, timestamp |-> t])]

SimpleCache_clear(c) == [cache |-> <<>>, timestamps |-> <<>>]

(***************************************************************************)
(* QAHandler.  A handler value h is [is_loaded, cache], cache being the    *)
(* QACache value; outcome is what qa_pipeline does if it is called.  The   *)
(* timing fields of QAResult and the answer's positions are not modelled.  *)
(***************************************************************************)
max_length == 512

\* str.rfind(c) counted from 1: the last place c occurs at, 0 when nowhere
RFind(s, c) ==
    IF Contains(s, c)
    THEN CHOOSE i \in 1..Len(s) :
             /\ MatchesAt(s, c, i)
             /\ \A j \in (i + 1)..Len(s) : ~MatchesAt(s, c, j)
    ELSE 0

_preprocess_context(context) ==
    LET joined == Strip(CollapseWhitespace(context))
        max_context_length == max_length - 100
        cut == SubSeq(joined, 1, max_context_length)
        last_period == RFind(cut, ".")
    IN  IF Len(joined) > max_context_length
        THEN IF (last_period - 1) * 10 > max_context_length * 8
             THEN Strip(SubSeq(cut, 1, last_period))
             ELSE Strip(cut)
        ELSE Strip(joined)

\* the first component of the pair _validate_inputs returns
_validate_inputs(question, context) ==
    /\ Strip(question) # ""
    /\ Strip(context) # ""
    /\ Len(Strip(question)) >= 3
    /\ Len(Strip(context)) >= 10

QAResult(answer, model_confidence, context_used) ==
    [answer |-> answer, confidence |-> Min(model_confidence, One),
     context_used |-> context_used, model_confidence |-> model_confidence]

\* returns [out, cache, called]: what the call returns or raises, the cache
\* after it, and whether qa_pipeline was called
extract_answer(h, question, context, confidence_threshold, outcome, t) ==
    IF ~h.is_loaded
    THEN [out |-> Raise("QA model not loaded. Call initialize() first."),
          cache |-> h.cache, called |-> FALSE]
    ELSE IF ~_validate_inputs(question, context)
    THEN [out |-> Return(None), cache |-> h.cache, called |-> FALSE]
    ELSE
    LET AfterGet(cached_result, looked) ==
            IF cached_result # None
            THEN [out |-> Return(cached_result), cache |-> looked, called |-> FALSE]
            ELSE IF outcome.kind = "raise"
            THEN [out |-> Return(None), cache |-> looked, called |-> TRUE]
            ELSE IF outcome.score < confidence_threshold
            THEN [out |-> Return(None), cache |-> looked, called |-> TRUE]
            ELSE
            LET Store(qa_result) ==
                    [out |-> Return(Some(qa_result)),
                     cache |-> IF outcome.score > Frac(3, 10)
                               THEN QACache_set(looked, question, context,
                                                qa_result, None, t)
                               ELSE looked,
                     called |-> TRUE]
            IN  Store(QAResult(Strip(outcome.answer), outcome.score,
                               _preprocess_context(context)))
        Get(got) == AfterGet(got.result, [cache |-> got.cache, hits |-> got.hits,
                                          misses |-> got.misses])
    IN  Get(QACache_get(h.cache, question, context, t))

\* list.sort(key=lambda x: x.confidence, reverse=True): stable, so results
\* of equal confidence keep their order
RECURSIVE InsertByConfidence(_, _)
InsertByConfidence(sorted, r) ==
    IF sorted = <<>> THEN <<r>>
    ELSE IF Head(sorted).confidence >= r.confidence
         THEN <<Head(sorted)>> \o InsertByConfidence(Tail(sorted), r)
         ELSE <<r>> \o sorted

\* the results left in the order of their contexts, unsorted
Mutant_SortByConfidence(results) == results

RECURSIVE SortByConfidence(_)
SortByConfidence(results) ==
    IF results = <<>> THEN <<>>
    ELSE InsertByConfidence(SortByConfidence(SubSeq(results, 1, Len(results) - 1)),
                            results[Len(results)])

\* the loop of extract_from_multiple from contexts[i] on; outcomes are what
\* the successive calls of qa_pipeline do.  Returns [results, cache, called],
\* called counting the calls of qa_pipeline
RECURSIVE ExtractEach(_, _, _, _, _, _, _)
ExtractEach(h, question, contexts, confidence_threshold, outcomes, t, i) ==
    IF i > Len(contexts) THEN [results |-> <<>>, cache |-> h.cache, called |-> 0]
    ELSE IF Strip(contexts[i]) = ""
    THEN ExtractEach(h, question, contexts, confidence_threshold, outcomes, t, i + 1)
    ELSE
    LET Collect(r, rest) ==
            [results |-> IF ~r.out.raised /\ r.out.value # None
                         THEN <<r.out.value[1]>> \o rest.results
                         ELSE rest.results,
             cache |-> rest.cache,
             called |-> rest.called + (IF r.called THEN 1 ELSE 0)]
        Step(r) ==
            Collect(r, ExtractEach([h EXCEPT !.cache = r.cache], question, contexts,
                                  confidence_threshold,
                                  IF r.called THEN Tail(outcomes) ELSE outcomes,
                                  t, i + 1))
    IN  Step(extract_answer(h, question, contexts[i], confidence_threshold,
                            Head(outcomes), t))

extract_from_multiple(h, question, contexts, confidence_threshold, outcomes, t) ==
    LET Sorted(each) ==
            [results |-> SortByConfidence(each.results), cache |-> each.cache,
             called |-> each.called]
    IN  Sorted(ExtractEach(h, question, contexts, confidence_threshold,
                           outcomes, t, 1))

(***************************************************************************)
(* KnowledgeBase.  A value kb is [loaded, knowledge], knowledge being the  *)
(* dict read from knowledge_base.json as items [key, context, category];   *)
(* a field the file leaves out is the empty string, which every test of    *)
(* the code treats as it treats None.                                      *)
(***************************************************************************)
\* the lookup answering with a stock context where it has none
Mutant_get_context(kb, intent) ==
    IF kb.loaded /\ HasKey(kb.knowledge, intent)
          /\ ItemOf(kb.knowledge, intent).context # ""
    THEN Some(ItemOf(kb.knowledge, intent).context)
    ELSE Some("Basic plan costs 29.")

get_context(kb, intent) ==
    IF ~kb.loaded THEN None
    ELSE IF ~HasKey(kb.knowledge, intent) THEN None
    ELSE Some(ItemOf(kb.knowledge, intent).context)

get_category(kb, intent) ==
    IF ~kb.loaded THEN None
    ELSE IF ~HasKey(kb.knowledge, intent) THEN None
    ELSE Some(ItemOf(kb.knowledge, intent).category)

\* search_related_contexts returning related itself, the slice left out
Mutant_search_related_contexts(kb, intent, limit) ==
    IF ~kb.loaded THEN <<>>
    ELSE IF ~HasKey(kb.knowledge, intent) THEN <<>>
    ELSE IF ItemOf(kb.knowledge, intent).category = "" THEN <<>>
    ELSE LET related == SelectSeq(kb.knowledge, LAMBDA item :
                            /\ item.key # intent
                            /\ item.category = ItemOf(kb.knowledge, intent).category
                            /\ item.context # "")
         IN  [i \in 1..Len(related) |->
                 [key |-> related[i].key, context |-> related[i].context]]

\* the (key, context) pairs, as items [key, context]
search_related_contexts(kb, intent, limit) ==
    IF ~kb.loaded THEN <<>>
    ELSE LET target_category == get_category(kb, intent) IN
         IF target_category = None \/ target_category = Some("") THEN <<>>
         ELSE LET related == SelectSeq(kb.knowledge, LAMBDA item :
                                 /\ item.key # intent
                                 /\ item.category = target_category[1]
                                 /\ item.context # "")
              IN  [i \in 1..Min(limit, Len(related)) |->
                      [key |-> related[i].key, context |-> related[i].context]]

(***************************************************************************)
(* HybridResponseGenerator: composing the response.  A HybridResponse is   *)
(* [message, intent, confidence, mode, source, metadata]; its timing       *)
(* fields, user_id and the debug metadata are not modelled.  draw is the   *)
(* number random.choice draws: it returns seq[draw % len(seq)].            *)
(***************************************************************************)
RESPONSE_TEMPLATES ==
    <<[key |-> "conversational_greeting", templates |->
        <<"Hello! Welcome to our chatbot service. How can I assist you today?",
          "Hi there! I'm here to help you with any questions about our platform.",
          "Good day! I'm your AI assistant. What would you like to know?">>],
      [key |-> "conversational_thanks", templates |->
        <<"You're very welcome! I'm glad I could help.",
          "Happy to assist! Is there anything else you'd like to know?",
          "My pleasure! Feel free to ask if you have more questions.">>],
      [key |-> "conversational_goodbye", templates |->
        <<"Goodbye! Thank you for using our service. Have a great day!",
          "See you later! Don't hesitate to return if you need more help.",
          "Take care! I'm always here when you need assistance.">>],
      [key |-> "conversational_chitchat", templates |->
        <<"I'm doing great, thank you for asking! How can I help you today?",
          "I'm here and ready to assist you. What's on your mind?",
          "Thanks for the friendly greeting! What would you like to know about our service?">>],
      [key |-> "conversational_feedback", templates |->
        <<"Thank you for your feedback! We really value your input and use it to improve our service.",
          "I appreciate you taking the time to share your thoughts. Your feedback helps us get better.",
          "That's valuable feedback! We'll definitely consider it for future improvements.">>]>>

\* random.choice(seq)
Choice(seq, draw) == seq[(draw % Len(seq)) + 1]

\* seq.index(x), counted from 0
Index(seq, x) == (CHOOSE i \in 1..Len(seq) : seq[i] = x /\ \A j \in 1..(i - 1) : seq[j] # x) - 1

\* the response carrying the classification confidence as its own
Mutant_KnowledgeAnswer(qa_result, intent, classification_confidence, context_used) ==
    [message |-> qa_result.answer,
     intent |-> intent,
     confidence |-> classification_confidence,
     mode |-> "knowledge",
     source |-> "qa_extraction",
     metadata |-> [qa_confidence |-> qa_result.confidence,
                   classification_confidence |-> classification_confidence,
                   context_used |-> context_used,
                   answer_length |-> Len(qa_result.answer)]]

KnowledgeAnswer(qa_result, intent, classification_confidence, context_used) ==
    [message |-> qa_result.answer,
     intent |-> intent,
     confidence |-> Min(classification_confidence, qa_result.confidence),
     mode |-> "knowledge",
     source |-> "qa_extraction",
     metadata |-> [qa_confidence |-> qa_result.confidence,
                   classification_confidence |-> classification_confidence,
                   context_used |-> context_used,
                   answer_length |-> Len(qa_result.answer)]]

\* the composition going on to the related contexts whatever the primary
\* context gave
Mutant_generate_knowledge_response(g, question, intent, classification_confidence, outcomes, t) ==
    LET primary_context == get_context(g.kb, intent) IN
    IF primary_context = None \/ primary_context = Some("")
    THEN [out |-> Return(None), cache |-> g.qa.cache, called |-> 0]
    ELSE
    LET Related(first, contexts, more) ==
            [out |-> IF /\ more.results # <<>>
                        /\ more.results[1].confidence > qa_confidence_threshold
                     THEN Return(Some(
                              [KnowledgeAnswer(more.results[1], intent,
                                   classification_confidence, "related_contexts")
                               EXCEPT !.metadata =
                                   [qa_confidence |-> more.results[1].confidence,
                                    classification_confidence |->
                                        classification_confidence,
                                    context_used |-> "related_contexts",
                                    contexts_searched |-> Len(contexts),
                                    answer_length |-> Len(more.results[1].answer)]]))
                     ELSE Return(None),
             cache |-> more.cache,
             called |-> (IF first.called THEN 1 ELSE 0) + more.called]
        Search(first, related_contexts) ==
            IF related_contexts = <<>>
            THEN [out |-> Return(None), cache |-> first.cache,
                  called |-> IF first.called THEN 1 ELSE 0]
            ELSE
            LET contexts == [i \in DOMAIN related_contexts |->
                                related_contexts[i].context]
            IN  Related(first, contexts,
                        extract_from_multiple([g.qa EXCEPT !.cache = first.cache],
                                              question, contexts, Frac(1, 10),
                                              IF first.called THEN Tail(outcomes)
                                              ELSE outcomes, t))
        Primary(first, qa_result) ==
            IF first.out.raised
            THEN [out |-> first.out, cache |-> first.cache, called |-> 0]
            ELSE Search(first, search_related_contexts(g.kb, intent, 3))
        Extracted(first) == Primary(first, first.out.value)
    IN  Extracted(extract_answer(g.qa, question, primary_context[1], Frac(1, 10),
                                 Head(outcomes), t))

\* g is the generator: [distilbert_handler, is_loaded, qa, kb], qa the
\* QAHandler value and kb the KnowledgeBase value.  outcomes are what the
\* successive calls of the extractor's qa_pipeline do.  Returns [out, cache,
\* called]: None or the response, or what is raised; the Answer Cache after
\* the call; the number of calls of qa_pipeline
_generate_knowledge_response(g, question, intent, classification_confidence, outcomes, t) ==
    LET primary_context == get_context(g.kb, intent) IN
    IF primary_context = None \/ primary_context = Some("")
    THEN [out |-> Return(None), cache |-> g.qa.cache, called |-> 0]
    ELSE
    LET Related(first, contexts, more) ==
            [out |-> IF /\ more.results # <<>>
                        /\ more.results[1].confidence > qa_confidence_threshold
                     THEN Return(Some(
                              [KnowledgeAnswer(more.results[1], intent,
                                   classification_confidence, "related_contexts")
                               EXCEPT !.metadata =
                                   [qa_confidence |-> more.results[1].confidence,
                                    classification_confidence |->
                                        classification_confidence,
                                    context_used |-> "related_contexts",
                                    contexts_searched |-> Len(contexts),
                                    answer_length |-> Len(more.results[1].answer)]]))
                     ELSE Return(None),
             cache |-> more.cache,
             called |-> (IF first.called THEN 1 ELSE 0) + more.called]
        Search(first, related_contexts) ==
            IF related_contexts = <<>>
            THEN [out |-> Return(None), cache |-> first.cache,
                  called |-> IF first.called THEN 1 ELSE 0]
            ELSE
            LET contexts == [i \in DOMAIN related_contexts |->
                                related_contexts[i].context]
            IN  Related(first, contexts,
                        extract_from_multiple([g.qa EXCEPT !.cache = first.cache],
                                              question, contexts, Frac(1, 10),
                                              IF first.called THEN Tail(outcomes)
                                              ELSE outcomes, t))
        Primary(first, qa_result) ==
            IF first.out.raised
            THEN [out |-> first.out, cache |-> first.cache, called |-> 0]
            ELSE IF qa_result # None /\ qa_result[1].confidence > qa_confidence_threshold
            THEN [out |-> Return(Some(KnowledgeAnswer(qa_result[1], intent,
                                         classification_confidence, intent))),
                  cache |-> first.cache,
                  called |-> IF first.called THEN 1 ELSE 0]
            ELSE Search(first, search_related_contexts(g.kb, intent, 3))
        Extracted(first) == Primary(first, first.out.value)
    IN  Extracted(extract_answer(g.qa, question, primary_context[1], Frac(1, 10),
                                 Head(outcomes), t))

ConversationalTemplates(intent) ==
    IF HasKey(RESPONSE_TEMPLATES, intent)
    THEN ItemOf(RESPONSE_TEMPLATES, intent).templates
    ELSE <<"I understand you're trying to communicate. How can I help you better?">>

_generate_conversational_response(intent, classification_confidence, draw) ==
    LET templates == ConversationalTemplates(intent)
        message == Choice(templates, draw)
    IN  [message |-> message,
         intent |-> intent,
         confidence |-> classification_confidence,
         mode |-> "conversational",
         source |-> "template",
         metadata |-> [classification_confidence |-> classification_confidence,
                       template_options |-> Len(templates),
                       template_selected |-> Index(templates, message)]]

fallback_messages(question) ==
    (IF ~Contains(question, "?")
     THEN <<"I notice your message doesn't contain a question mark. Are you asking a question or making a statement?">>
     ELSE <<>>)
    \o (IF WordCount(question) < 3
        THEN <<"Your question seems quite brief. Could you provide more details about what you're looking for?">>
        ELSE <<>>)
    \o <<"I'm not entirely sure about that. Could you please rephrase your question or provide more details?",
         "I didn't quite understand your question. Could you try asking it differently?",
         "I'm still learning about that topic. Can you be more specific about what you'd like to know?",
         "That's an interesting question, but I'm not confident in my answer. Could you provide more context?",
         "I want to make sure I give you accurate information. Could you clarify what you're looking for?">>

_generate_fallback_response(intent, confidence, question, draw) ==
    [message |-> Choice(fallback_messages(question), draw),
     intent |-> intent,
     confidence |-> confidence,
     mode |-> "fallback",
     source |-> "fallback",
     metadata |-> [classification_confidence |-> confidence,
                   question_length |-> Len(question),
                   question_words |-> WordCount(question),
                   fallback_reason |-> IF confidence < qa_confidence_threshold
                                       THEN "low_confidence"
                                       ELSE "unknown_intent"]]

\* the response of the except branch of generate_response
EmergencyResponse(e) ==
    [message |-> "I apologize, but I'm experiencing technical difficulties. Please try again later.",
     intent |-> "error",
     confidence |-> 0,
     mode |-> "fallback",
     source |-> "error",
     metadata |-> [error |-> e]]

\* the texts and pipeline outcomes of the chat requests of the model
RespondQuestions ==
    {"zzzz", "hello", "starter", "xdevelopers recalls pay per users",
     "billing refund"}

RespondQAOutcomes == {PipelineRaises, QAOutput("Universitas", One)}

RespondClassifierOutcomes ==
    {PipelineRaises, ClassifierOutput(<<>>),
     ClassifierOutput(<<[label |-> "LABEL_30", score |-> 0]>>),
     ClassifierOutput(<<[label |-> "LABEL_34", score |-> One]>>),
     ClassifierOutput(<<[label |-> "LABEL_9", score |-> One]>>)}

\* classify_intent of a loaded handler on those, computed once
classified ==
    [text \in RespondQuestions, qa \in RespondQAOutcomes,
     cls \in RespondClassifierOutcomes |-> classify_intent(TRUE, text, qa, cls)]

\* self.distilbert_handler.classify_intent(question, include_debug)
Classify(loaded, text, qa, cls) ==
    IF loaded THEN classified[text, qa, cls]
    ELSE classify_intent(loaded, text, qa, cls)

\* generate_response re-entering at conversational whenever the knowledge
\* step gave no response, whatever the intent
Mutant_generate_response_reentry(g, question, qa, cls, outcomes, draw, t) ==
    IF ~g.distilbert_handler
    THEN [out |-> Raise("DistilBERT handler not set. Call set_classification_handler() first."),
          cache |-> g.qa.cache, classification |-> None, mode |-> None,
          called |-> 0]
    ELSE
    LET Compose(classification_result, intent, classification_confidence, mode,
                knowledge) ==
            [out |-> IF knowledge.out.raised
                     THEN knowledge.out
                     ELSE IF knowledge.out.value # None
                     THEN Return(knowledge.out.value[1])
                     ELSE IF mode \in {"knowledge", "conversational"}
                     THEN Return(_generate_conversational_response(
                                     intent, classification_confidence, draw))
                     ELSE Return(_generate_fallback_response(
                                     intent, classification_confidence, question,
                                     draw)),
             cache |-> knowledge.cache,
             classification |-> Some(classification_result.value),
             mode |-> Some(mode),
             called |-> knowledge.called]
        Route(classification_result, intent, classification_confidence, mode) ==
            Compose(classification_result, intent, classification_confidence, mode,
                    IF mode = "knowledge"
                    THEN _generate_knowledge_response(g, question, intent,
                             classification_confidence, outcomes, t)
                    ELSE [out |-> Return(None), cache |-> g.qa.cache, called |-> 0])
        Respond(classification_result) ==
            IF classification_result.raised
            THEN [out |-> Raise(classification_result.error),
                  cache |-> g.qa.cache, classification |-> None, mode |-> None,
                  called |-> 0]
            ELSE Route(classification_result, classification_result.value.intent,
                       classification_result.value.confidence,
                       _determine_mode(classification_result.value.intent,
                                       classification_result.value.confidence))
    IN  Respond(Classify(g.is_loaded, question, qa, cls))

\* generate_response with the try/except left out: what is raised inside
\* reaches the caller
Mutant_generate_response(g, question, qa, cls, outcomes, draw, t) ==
    IF ~g.distilbert_handler
    THEN [out |-> Raise("DistilBERT handler not set. Call set_classification_handler() first."),
          cache |-> g.qa.cache, classification |-> None, mode |-> None,
          called |-> 0]
    ELSE
    LET Compose(classification_result, intent, classification_confidence, mode,
                knowledge) ==
            [out |-> IF knowledge.out.raised
                     THEN knowledge.out
                     ELSE IF knowledge.out.value # None
                     THEN Return(knowledge.out.value[1])
                     ELSE IF intent \in CONVERSATIONAL_INTENTS \/ mode = "conversational"
                     THEN Return(_generate_conversational_response(
                                     intent, classification_confidence, draw))
                     ELSE Return(_generate_fallback_response(
                                     intent, classification_confidence, question,
                                     draw)),
             cache |-> knowledge.cache,
             classification |-> Some(classification_result.value),
             mode |-> Some(mode),
             called |-> knowledge.called]
        Route(classification_result, intent, classification_confidence, mode) ==
            Compose(classification_result, intent, classification_confidence, mode,
                    IF mode = "knowledge"
                    THEN _generate_knowledge_response(g, question, intent,
                             classification_confidence, outcomes, t)
                    ELSE [out |-> Return(None), cache |-> g.qa.cache, called |-> 0])
        Respond(classification_result) ==
            IF classification_result.raised
            THEN [out |-> Raise(classification_result.error),
                  cache |-> g.qa.cache, classification |-> None, mode |-> None,
                  called |-> 0]
            ELSE Route(classification_result, classification_result.value.intent,
                       classification_result.value.confidence,
                       _determine_mode(classification_result.value.intent,
                                       classification_result.value.confidence))
    IN  Respond(Classify(g.is_loaded, question, qa, cls))

\* qa and cls are what the handler's two pipelines do if they are called.
\* Returns [out, cache, classification, mode, called]: the response, or what
\* is raised; the Answer Cache after the call; the classification result and
\* the mode the router chose (None when the call did not get that far); the
\* number of calls of the extractor's qa_pipeline
generate_response(g, question, qa, cls, outcomes, draw, t) ==
    IF ~g.distilbert_handler
    THEN [out |-> Raise("DistilBERT handler not set. Call set_classification_handler() first."),
          cache |-> g.qa.cache, classification |-> None, mode |-> None,
          called |-> 0]
    ELSE
    LET Compose(classification_result, intent, classification_confidence, mode,
                knowledge) ==
            [out |-> IF knowledge.out.raised
                     THEN Return(EmergencyResponse(knowledge.out.error))
                     ELSE IF knowledge.out.value # None
                     THEN Return(knowledge.out.value[1])
                     ELSE IF intent \in CONVERSATIONAL_INTENTS \/ mode = "conversational"
                     THEN Return(_generate_conversational_response(
                                     intent, classification_confidence, draw))
                     ELSE Return(_generate_fallback_response(
                                     intent, classification_confidence, question,
                                     draw)),
             cache |-> knowledge.cache,
             classification |-> Some(classification_result.value),
             mode |-> Some(mode),
             called |-> knowledge.called]
        Route(classification_result, intent, classification_confidence, mode) ==
            Compose(classification_result, intent, classification_confidence, mode,
                    IF mode = "knowledge"
                    THEN _generate_knowledge_response(g, question, intent,
                             classification_confidence, outcomes, t)
                    ELSE [out |-> Return(None), cache |-> g.qa.cache, called |-> 0])
        Respond(classification_result) ==
            IF classification_result.raised
            THEN [out |-> Return(EmergencyResponse(classification_result.error)),
                  cache |-> g.qa.cache, classification |-> None, mode |-> None,
                  called |-> 0]
            ELSE Route(classification_result, classification_result.value.intent,
                       classification_result.value.confidence,
                       _determine_mode(classification_result.value.intent,
                                       classification_result.value.confidence))
    IN  Respond(Classify(g.is_loaded, question, qa, cls))

(***************************************************************************)
(* State.                                                                  *)
(***************************************************************************)
VARIABLES
    now,                \* the clock datetime.now() and time.time() read
    qa_cache,           \* QACache.cache, a dict, as its items in insertion order
    qa_hits,            \* QACache.hits
    qa_misses,          \* QACache.misses
    sc_cache,           \* SimpleCache.cache, as its items in insertion order
    sc_timestamps,      \* SimpleCache.timestamps, likewise
    distilbert_handler, \* HybridResponseGenerator.distilbert_handler is set
    is_loaded,          \* DistilBERTHandler.is_loaded
    qa_is_loaded,       \* QAHandler.is_loaded
    kb_loaded,          \* KnowledgeBase.loaded
    call,               \* the call about to be made, with its arguments
    last                \* the last call made, with its arguments and outcome

vars == <<now, qa_cache, qa_hits, qa_misses, sc_cache, sc_timestamps,
          distilbert_handler, is_loaded, qa_is_loaded, kb_loaded, call, last>>

cache_vars == <<qa_cache, qa_hits, qa_misses, sc_cache, sc_timestamps>>

service_vars == <<distilbert_handler, is_loaded, qa_is_loaded, kb_loaded>>

NoCall == [op |-> "none"]

\* the state after the module-level constructors have run
Constructed ==
    /\ now = 0
    /\ qa_cache = <<>>
    /\ qa_hits = 0
    /\ qa_misses = 0
    /\ sc_cache = <<>>
    /\ sc_timestamps = <<>>
    /\ distilbert_handler = FALSE
    /\ is_loaded = FALSE
    /\ qa_is_loaded = FALSE
    /\ kb_loaded = FALSE
    /\ last = NoCall

(***************************************************************************)
(* Inputs of the model.                                                    *)
(***************************************************************************)
QAScores == {Frac(2, 10), Frac(1, 4), Frac(3, 10), One}

ClassifierScores == {Frac(3, 10), Frac(4, 10), Frac(45, 100), Frac(66, 100), One}

RouterScores == {0, Frac(3, 10) - 1, Frac(3, 10), Frac(3, 10) + 1, Frac(1, 2), One}

Answers == {"abc", "Universitas"}

HandlerQAOutcomes ==
    {PipelineRaises} \cup {QAOutput(a, c) : a \in Answers, c \in QAScores}

Labels == {"LABEL_9", "LABEL_30", "LABEL_35", "LABEL_36", "LABEL_x", "POSITIVE"}

ClassifierOutcomes ==
    {PipelineRaises, ClassifierOutput(<<>>)}
        \cup {ClassifierOutput(<<[label |-> l, score |-> c]>>) :
                l \in Labels, c \in ClassifierScores}
        \cup {ClassifierOutput(<<[label |-> "LABEL_0", score |-> Frac(3, 10)],
                                 [label |-> "LABEL_6", score |-> Frac(45, 100)],
                                 [label |-> "LABEL_9", score |-> Frac(45, 100)]>>)}

RouterIntents ==
    Range(intent_labels) \cup {"faq_informasi", "error"}

(***************************************************************************)
(* The mode router alone: every (intent, confidence) is routed once.       *)
(***************************************************************************)
InitRouter ==
    /\ Constructed
    /\ call \in [op : {"_determine_mode"}, intent : RouterIntents, confidence : RouterScores]

DetermineMode ==
    /\ call.op = "_determine_mode"
    /\ last' = [op |-> "_determine_mode", intent |-> call.intent,
                confidence |-> call.confidence,
                mode |-> _determine_mode(call.intent, call.confidence)]
    /\ call' = NoCall
    /\ UNCHANGED <<now, cache_vars, service_vars>>

NextRouter == DetermineMode

SpecRouter == InitRouter /\ [][NextRouter]_vars

(***************************************************************************)
(* DistilBERTHandler.classify_intent alone: the handler was initialized    *)
(* (is_loaded tells whether that succeeded) and classifies one text.       *)
(***************************************************************************)
InitClassify ==
    /\ now = 0
    /\ qa_cache = <<>> /\ qa_hits = 0 /\ qa_misses = 0
    /\ sc_cache = <<>> /\ sc_timestamps = <<>>
    /\ distilbert_handler = FALSE
    /\ is_loaded \in BOOLEAN
    /\ qa_is_loaded = FALSE
    /\ kb_loaded = FALSE
    /\ last = NoCall
    /\ call \in [op : {"classify_intent"}, text : Texts, qa : HandlerQAOutcomes,
                 cls : ClassifierOutcomes]

ClassifyIntent ==
    /\ call.op = "classify_intent"
    /\ last' = [op |-> "classify_intent", text |-> call.text, qa |-> call.qa,
                cls |-> call.cls,
                calls |-> ClassifyCalls(is_loaded, call.text, call.qa, call.cls),
                out |-> classify_intent(is_loaded, call.text, call.qa, call.cls)]
    /\ call' = NoCall
    /\ UNCHANGED <<now, cache_vars, service_vars>>

NextClassify == ClassifyIntent

SpecClassify == InitClassify /\ [][NextClassify]_vars

(***************************************************************************)
(* The two caches alone, under any sequence of get, set and clear and any  *)
(* passage of time.  The caches are separate objects that share only the   *)
(* clock, and no operation of one reads or writes the other, so a          *)
(* behaviour exercises the one that call.cache names.                      *)
(***************************************************************************)
MaxTime == 2

MaxGets == 1

CachedQuestions ==
    {<<"price", "Basic plan costs 29.">>, <<"price", "Pro plan costs 99.">>,
     <<"sso", "Basic plan costs 29.">>}

CachedResults == {"29", "99"}

TTLs == {None, Some(0), Some(2)}

CachedTexts == {"hello", " Hello ", "starter", "billing refund"}

CachedClassifications == {"conversational_greeting", "billing_support"}

QACacheValue == [cache |-> qa_cache, hits |-> qa_hits, misses |-> qa_misses]

SimpleCacheValue == [cache |-> sc_cache, timestamps |-> sc_timestamps]

InitCache ==
    /\ Constructed
    /\ call \in [op : {"cache"}, cache : {"QACache", "SimpleCache"}]

\* the clock advances between calls
Tick ==
    /\ now < MaxTime
    /\ now' = now + 1
    /\ UNCHANGED <<cache_vars, service_vars, call, last>>

QAGet ==
    /\ call.cache = "QACache"
    /\ qa_hits + qa_misses < MaxGets
    /\ \E qc \in CachedQuestions :
       \E got \in {QACache_get(QACacheValue, qc[1], qc[2], now)} :
         LET key == _generate_key(qc[1], qc[2])
             stored == HasKey(qa_cache, key)
         IN  /\ qa_cache' = got.cache
             /\ qa_hits' = got.hits
             /\ qa_misses' = got.misses
             /\ last' = [op |-> "get", cache |-> "QACache", key |-> key,
                         stored |-> stored,
                         age |-> IF stored
                                 THEN now - ItemOf(qa_cache, key).timestamp ELSE 0,
                         ttl |-> IF stored THEN ItemOf(qa_cache, key).ttl ELSE 0,
                         result |-> got.result]
    /\ UNCHANGED <<now, sc_cache, sc_timestamps, service_vars, call>>

QASet ==
    /\ call.cache = "QACache"
    /\ \E qc \in CachedQuestions, result \in CachedResults, ttl \in TTLs :
       \E put \in {QACache_set(QACacheValue, qc[1], qc[2], result, ttl, now)} :
         /\ qa_cache' = put.cache
         /\ qa_hits' = put.hits
         /\ qa_misses' = put.misses
         /\ last' = [op |-> "set", cache |-> "QACache",
                     key |-> _generate_key(qc[1], qc[2]),
                     full |-> Len(qa_cache) >= max_size]
    /\ UNCHANGED <<now, sc_cache, sc_timestamps, service_vars, call>>

QAClear ==
    /\ call.cache = "QACache"
    /\ qa_cache' = QACache_clear(QACacheValue).cache
    /\ qa_hits' = QACache_clear(QACacheValue).hits
    /\ qa_misses' = QACache_clear(QACacheValue).misses
    /\ last' = [op |-> "clear", cache |-> "QACache"]
    /\ UNCHANGED <<now, sc_cache, sc_timestamps, service_vars, call>>

SCGet ==
    /\ call.cache = "SimpleCache"
    /\ \E text \in CachedTexts :
         LET key == _get_cache_key(text)
             stored == HasKey(sc_cache, key)
         IN  last' = [op |-> "get", cache |-> "SimpleCache", key |-> key,
                      stored |-> stored,
                      age |-> IF stored
                              THEN now - ItemOf(sc_timestamps, key).timestamp
                              ELSE 0,
                      ttl |-> IF stored THEN ttl_seconds ELSE 0,
                      result |-> SimpleCache_get(SimpleCacheValue, text, now)]
    /\ UNCHANGED <<now, cache_vars, service_vars, call>>

SCSet ==
    /\ call.cache = "SimpleCache"
    /\ \E text \in CachedTexts, result \in CachedClassifications :
       \E put \in {SimpleCache_set(SimpleCacheValue, text, result, now)} :
         /\ sc_cache' = put.cache
         /\ sc_timestamps' = put.timestamps
         /\ last' = [op |-> "set", cache |-> "SimpleCache",
                     key |-> _get_cache_key(text),
                     full |-> Len(_cleanup_expired(SimpleCacheValue, now).cache)
                                  >= max_size]
    /\ UNCHANGED <<now, qa_cache, qa_hits, qa_misses, service_vars, call>>

SCClear ==
    /\ call.cache = "SimpleCache"
    /\ sc_cache' = SimpleCache_clear(SimpleCacheValue).cache
    /\ sc_timestamps' = SimpleCache_clear(SimpleCacheValue).timestamps
    /\ last' = [op |-> "clear", cache |-> "SimpleCache"]
    /\ UNCHANGED <<now, qa_cache, qa_hits, qa_misses, service_vars, call>>

NextCache == Tick \/ QAGet \/ QASet \/ QAClear \/ SCGet \/ SCSet \/ SCClear

SpecCache == InitCache /\ [][NextCache]_vars

(***************************************************************************)
(* QAHandler.extract_answer alone, with its Answer Cache: initialize has   *)
(* succeeded or failed, and extract_answer is called any number of times   *)
(* as time passes; the cache may be cleared in between.                    *)
(***************************************************************************)
MaxLookups == 3

ExtractQuestions == {"price", "sso", "hi"}

ExtractContexts == {"Basic plan costs 29.", "  Pro plan\n costs 99. ", "short"}

ExtractorOutcomes ==
    {PipelineRaises, QAOutput(" 29 ", Frac(5, 100)), QAOutput("29", Frac(3, 10)),
     QAOutput(" 29 dollars ", Frac(1, 2))}

QAHandlerValue == [is_loaded |-> qa_is_loaded, cache |-> QACacheValue]

InitExtract ==
    /\ Constructed
    /\ call = [op |-> "extract_answer"]

\* QAHandler.initialize: is_loaded is set only when loading succeeds
QAInitialize ==
    /\ ~qa_is_loaded
    /\ qa_is_loaded' \in BOOLEAN
    /\ last' = [op |-> "initialize", success |-> qa_is_loaded']
    /\ UNCHANGED <<now, cache_vars, distilbert_handler, is_loaded, kb_loaded, call>>

ExtractAnswer ==
    /\ qa_hits + qa_misses < MaxLookups
    /\ \E question \in ExtractQuestions, context \in ExtractContexts,
          outcome \in ExtractorOutcomes :
       \E r \in {extract_answer(QAHandlerValue, question, context, Frac(1, 10),
                                  outcome, now)} :
         LET key == _generate_key(question, context)
             stored == HasKey(qa_cache, key)
         IN  \* a call that does not reach qa_pipeline has one outcome only
             /\ (~r.called => outcome = PipelineRaises)
             /\ qa_cache' = r.cache.cache
             /\ qa_hits' = r.cache.hits
             /\ qa_misses' = r.cache.misses
             /\ last' = [op |-> "extract_answer", question |-> question,
                         context |-> context,
                         stored |-> IF stored THEN Some(ItemOf(qa_cache, key))
                                    ELSE None,
                         age |-> IF stored
                                 THEN now - ItemOf(qa_cache, key).timestamp ELSE 0,
                         called |-> r.called,
                         outcome |-> IF r.called THEN Some(outcome) ELSE None,
                         out |-> r.out]
    /\ UNCHANGED <<now, sc_cache, sc_timestamps, service_vars, call>>

\* QAHandler.clear_cache
ClearCache ==
    /\ qa_cache' = QACache_clear(QACacheValue).cache
    /\ qa_hits' = QACache_clear(QACacheValue).hits
    /\ qa_misses' = QACache_clear(QACacheValue).misses
    /\ last' = [op |-> "clear_cache"]
    /\ UNCHANGED <<now, sc_cache, sc_timestamps, service_vars, call>>

NextExtract == QAInitialize \/ ExtractAnswer \/ ClearCache \/ Tick

SpecExtract == InitExtract /\ [][NextExtract]_vars

(***************************************************************************)
(* The chat service: the lifespan's startup, each of whose three loads     *)
(* succeeds or fails, and then any number of generate_response calls, as   *)
(* chat_conversation makes them, while time passes.  The event loop runs   *)
(* one request's pipeline calls to completion before the next request, so  *)
(* a request is one step.  call.requests counts the requests made.  The    *)
(* clock is read only to stamp and to age the entries of the Answer Cache, *)
(* so time is let pass only while the cache holds an entry.                *)
(***************************************************************************)
MaxRequests == 1

MaxDraw == 2

\* knowledge_base.json is not among the sources: a file of the shape
\* load_knowledge and the accessors expect, with two intents of one
\* category and an intent whose context is empty
knowledge_base_json ==
    <<[key |-> "pricing_basic", context |-> "Basic plan costs 29.",
       category |-> "Pricing"],
      [key |-> "pricing_api", context |-> "API calls cost 1 cent.",
       category |-> "Pricing"],
      [key |-> "billing_support", context |-> "", category |-> "Account"]>>

KnowledgeBaseValue ==
    [loaded |-> kb_loaded,
     knowledge |-> IF kb_loaded THEN knowledge_base_json ELSE <<>>]

GeneratorValue ==
    [distilbert_handler |-> distilbert_handler, is_loaded |-> is_loaded,
     qa |-> QAHandlerValue, kb |-> KnowledgeBaseValue]

RespondExtractorOutcomes ==
    {PipelineRaises, QAOutput("29", Frac(3, 10)),
     QAOutput(" 29 dollars ", Frac(1, 2)), QAOutput("99", One)}

\* what the extractor's pipeline does at its first and its second call
OutcomeSeqs == [1..2 -> RespondExtractorOutcomes]

NoOutcomes == [i \in 1..2 |-> PipelineRaises]

InitRespond ==
    /\ Constructed
    /\ call = [op |-> "chat", requests |-> 0]

\* lifespan, up to its yield
Startup ==
    /\ ~distilbert_handler
    /\ is_loaded' \in BOOLEAN
    /\ distilbert_handler' = TRUE
    /\ qa_is_loaded' \in BOOLEAN
    /\ kb_loaded' \in BOOLEAN
    /\ last' = [op |-> "lifespan"]
    /\ UNCHANGED <<now, cache_vars, call>>

\* the extractor can be reached: the request is routed to knowledge mode
\* and the knowledge base holds a context for its intent
ReachesExtractor(question, qa, cls) ==
    /\ distilbert_handler
    /\ is_loaded
    /\ LET result == Classify(is_loaded, question, qa, cls).value
           context == get_context(KnowledgeBaseValue, result.intent)
       IN  /\ _determine_mode(result.intent, result.confidence) = "knowledge"
           /\ context # None
           /\ context # Some("")

DrawsChoice(r) ==
    /\ ~r.out.raised
    /\ r.out.value.source \in {"template", "fallback"}

GenerateResponse ==
    /\ call.requests < MaxRequests
    /\ call' = [call EXCEPT !.requests = @ + 1]
    /\ \E question \in RespondQuestions, qa \in RespondQAOutcomes,
          cls \in RespondClassifierOutcomes :
       \E calls \in {IF distilbert_handler
                      THEN ClassifyCalls(is_loaded, question, qa, cls) ELSE <<>>} :
         \* a pipeline that is not called has one outcome only
         /\ (Len(calls) < 1 => qa = PipelineRaises)
         /\ (Len(calls) < 2 => cls = PipelineRaises)
         /\ \E outcomes \in IF ReachesExtractor(question, qa, cls)
                            THEN OutcomeSeqs ELSE {NoOutcomes} :
            \E first \in {generate_response(GeneratorValue, question, qa, cls,
                                             outcomes, 0, now)} :
                  /\ \A i \in 1..2 : i > first.called => outcomes[i] = PipelineRaises
                  /\ \E draw \in IF DrawsChoice(first) THEN 0..MaxDraw ELSE {0} :
                     \E r \in {IF draw = 0 THEN first
                                ELSE generate_response(GeneratorValue, question,
                                         qa, cls, outcomes, draw, now)} :
                           /\ qa_cache' = r.cache.cache
                           /\ qa_hits' = r.cache.hits
                           /\ qa_misses' = r.cache.misses
                           /\ last' = [op |-> "generate_response",
                                       question |-> question, qa |-> qa,
                                       cls |-> cls, outcomes |-> outcomes,
                                       draw |-> draw,
                                       generator |->
                                           [distilbert_handler |-> distilbert_handler,
                                            is_loaded |-> is_loaded,
                                            qa_is_loaded |-> qa_is_loaded,
                                            kb_loaded |-> kb_loaded],
                                       calls |-> calls,
                                       classification |-> r.classification,
                                       mode |-> r.mode,
                                       called |-> r.called,
                                       out |-> r.out]
    /\ UNCHANGED <<now, sc_cache, sc_timestamps, service_vars>>

Wait == qa_cache # <<>> /\ Tick

NextRespond == Startup \/ GenerateResponse \/ Wait

SpecRespond == InitRespond /\ [][NextRespond]_vars

(***************************************************************************)
(* _generate_knowledge_response alone: the knowledge base is loaded, the   *)
(* Answer Cache is empty, and one request of a knowledge intent is         *)
(* answered.  The knowledge base holds five intents of one category, so    *)
(* that the limit of three related contexts cuts.                          *)
(***************************************************************************)
pricing_knowledge_json ==
    <<[key |-> "pricing_basic", context |-> "Basic plan costs 29.",
       category |-> "Pricing"],
      [key |-> "pricing_professional", context |-> "Pro plan costs 99.",
       category |-> "Pricing"],
      [key |-> "billing_support", context |-> "Refunds take 5 days.",
       category |-> "Account"],
      [key |-> "pricing_enterprise", context |-> "Enterprise plan costs 499.",
       category |-> "Pricing"],
      [key |-> "pricing_api", context |-> "API calls cost 1 cent.",
       category |-> "Pricing"],
      [key |-> "pricing_add_ons", context |-> "Voice add-on costs 10.",
       category |-> "Pricing"]>>

KnowledgeIntentsAsked == {"pricing_basic", "pricing_api", "billing_support"}

KnowledgeOutcomes ==
    {PipelineRaises, QAOutput("low", Frac(2, 10)), QAOutput("edge", Frac(3, 10)),
     QAOutput(" half ", Frac(1, 2)), QAOutput("other half", Frac(1, 2)),
     QAOutput("sure", One)}

\* what the extractor's pipeline does at its first call, on the primary
\* context, and at the three calls on the related contexts
KnowledgeOutcomeSeqs == [1..4 -> KnowledgeOutcomes]

InitKnowledge ==
    /\ now = 0
    /\ qa_cache = <<>> /\ qa_hits = 0 /\ qa_misses = 0
    /\ sc_cache = <<>> /\ sc_timestamps = <<>>
    /\ distilbert_handler = TRUE
    /\ is_loaded = TRUE
    /\ qa_is_loaded \in BOOLEAN
    /\ kb_loaded = TRUE
    /\ last = NoCall
    /\ call \in [op : {"_generate_knowledge_response"},
                 intent : KnowledgeIntentsAsked, outcomes : KnowledgeOutcomeSeqs]

GenerateKnowledgeResponse ==
    /\ call.op = "_generate_knowledge_response"
    /\ \E kb \in {[loaded |-> kb_loaded, knowledge |-> pricing_knowledge_json]} :
       \E r \in {_generate_knowledge_response(
                     [distilbert_handler |-> distilbert_handler,
                      is_loaded |-> is_loaded, qa |-> QAHandlerValue, kb |-> kb],
                     "price", call.intent, Frac(8, 10), call.outcomes, now)} :
         /\ qa_cache' = r.cache.cache
         /\ qa_hits' = r.cache.hits
         /\ qa_misses' = r.cache.misses
         /\ last' = [op |-> "_generate_knowledge_response",
                     intent |-> call.intent,
                     outcomes |-> call.outcomes,
                     searched |-> Len(search_related_contexts(kb, call.intent, 3)),
                     called |-> r.called,
                     out |-> r.out]
    /\ call' = NoCall
    /\ UNCHANGED <<now, sc_cache, sc_timestamps, service_vars>>

NextKnowledge == GenerateKnowledgeResponse

SpecKnowledge == InitKnowledge /\ [][NextKnowledge]_vars

(***************************************************************************)
(* DistilBERTHandler.batch_classify: one task per text, gathered.  As the  *)
(* code stands no task suspends, so the tasks complete in the order they   *)
(* were created; the model lets them complete in any order, which is what  *)
(* asyncio allows once a task awaits.  call holds the batch in flight:     *)
(* outcomes[i] is None while task i is pending and then what it returned   *)
(* or raised, order the indices of the tasks in the order they completed.  *)
(***************************************************************************)
MaxBatch == 2

BatchTexts == {"hello", "zzzz", "billing refund"}

BatchClassifierOutcomes ==
    {PipelineRaises, ClassifierOutput(<<[label |-> "LABEL_9", score |-> One]>>)}

\* a text of a batch with what the two pipelines do on it; a pipeline that
\* is not called has one outcome only
BatchItems ==
    {item \in [text : BatchTexts, qa : RespondQAOutcomes,
               cls : BatchClassifierOutcomes] :
        Len(ClassifyCalls(TRUE, item.text, item.qa, item.cls)) < 2
            => item.cls = PipelineRaises}

BatchLists == UNION {[1..n -> BatchItems] : n \in 0..MaxBatch}

\* a list handed in completion order instead of the order of the awaitables
Mutant_gather(outcomes, order) == [k \in DOMAIN order |-> outcomes[order[k]]]

\* await asyncio.gather(*tasks, return_exceptions=True): the results, and
\* the exceptions raised, in the order of the awaitables
gather(outcomes, order) == outcomes

\* the loop of batch_classify over the gathered results
processed_results(results) ==
    [i \in DOMAIN results |->
        IF results[i].raised THEN _fallback_classification ELSE results[i].value]

InitBatch ==
    /\ now = 0
    /\ qa_cache = <<>> /\ qa_hits = 0 /\ qa_misses = 0
    /\ sc_cache = <<>> /\ sc_timestamps = <<>>
    /\ distilbert_handler = FALSE
    /\ is_loaded \in BOOLEAN
    /\ qa_is_loaded = FALSE
    /\ kb_loaded = FALSE
    /\ last = NoCall
    /\ call \in [op : {"batch_classify"}, items : BatchLists]

\* batch_classify up to the await: the test of is_loaded and the tasks
BatchClassify ==
    /\ call.op = "batch_classify"
    /\ IF ~is_loaded
       THEN /\ last' = [op |-> "batch_classify", items |-> call.items,
                        order |-> <<>>,
                        out |-> Raise("Model not loaded. Call initialize() first.")]
            /\ call' = NoCall
       ELSE /\ call' = [op |-> "gather", items |-> call.items,
                        outcomes |-> [i \in DOMAIN call.items |-> None],
                        order |-> <<>>]
            /\ UNCHANGED last
    /\ UNCHANGED <<now, cache_vars, service_vars>>

\* a task of the batch, classify_intent on its text, runs to its end
TaskCompletes ==
    /\ call.op = "gather"
    /\ \E i \in DOMAIN call.items :
         /\ call.outcomes[i] = None
         /\ call' = [call EXCEPT
                        !.outcomes[i] = Some(Classify(is_loaded, call.items[i].text,
                                                      call.items[i].qa,
                                                      call.items[i].cls)),
                        !.order = Append(@, i)]
    /\ UNCHANGED <<now, cache_vars, service_vars, last>>

\* gather returns when every task is done, and batch_classify after it
BatchReturns ==
    /\ call.op = "gather"
    /\ \A i \in DOMAIN call.items : call.outcomes[i] # None
    /\ last' = [op |-> "batch_classify", items |-> call.items,
                order |-> call.order,
                out |-> Return(processed_results(
                            gather([i \in DOMAIN call.items |-> call.outcomes[i][1]],
                                   call.order)))]
    /\ call' = NoCall
    /\ UNCHANGED <<now, cache_vars, service_vars>>

NextBatch == BatchClassify \/ TaskCompletes \/ BatchReturns

SpecBatch == InitBatch /\ [][NextBatch]_vars

(***************************************************************************)
(* Several requests on one cache.  Every endpoint is a coroutine on the    *)
(* one event loop of the one worker, and the methods of the two caches are *)
(* plain functions: a request that has entered one runs it statement by    *)
(* statement to its end before the loop resumes another request.  call     *)
(* holds a frame for each request, with the statement it is at, and loop,  *)
(* the request the event loop is running (0 when it runs none).  The clock *)
(* is read as standing still while a request runs.                         *)
(***************************************************************************)
MaxConcurrent == 2

Requests == 1..MaxConcurrent

IdleFrame ==
    [pc |-> "idle", op |-> "none", arg |-> None, before |-> None, t |-> 0,
     oldest_key |-> None, failed |-> FALSE, result |-> None]

\* a request preempted after any statement, as threads are
Mutant_Suspends(pc) == TRUE

\* whether the event loop may resume another request after a statement
\* that leaves the request at pc: only when the request has returned; no
\* method of the caches awaits
Suspends(pc) == pc = "idle"

\* request r executed a statement that leaves its frame as frame
Executed(r, frame) ==
    [call EXCEPT !.frames[r] = frame,
                 !.loop = IF Suspends(frame.pc) THEN 0 ELSE r]

\* request r is at statement pc and the event loop may run it
At(r, pc) ==
    /\ call.op = "requests"
    /\ call.frames[r].pc = pc
    /\ call.loop \in {0, r}

\* the statement raised: the method is left with the exception
Failed(frame) == [frame EXCEPT !.pc = "done", !.failed = TRUE]

InitConcurrent ==
    /\ Constructed
    /\ call \in [op : {"requests"}, cache : {"QACache", "SimpleCache"},
                 frames : {[r \in Requests |-> IdleFrame]}, loop : {0}]

\* the clock advances while the event loop runs no request
ClockAdvances ==
    /\ call.op = "requests"
    /\ call.loop = 0
    /\ now < MaxTime
    /\ now' = now + 1
    /\ UNCHANGED <<cache_vars, service_vars, call, last>>

\* a request enters get or set of the Answer Cache
QAEnter ==
    /\ call.cache = "QACache"
    /\ \E r \in Requests, op \in {"get", "set"}, qc \in CachedQuestions :
         /\ At(r, "idle")
         /\ op = "get" => qa_hits + qa_misses < MaxGets
         /\ call' = Executed(r, [IdleFrame EXCEPT
                                    !.pc = IF op = "get" THEN "get_in" ELSE "set_len",
                                    !.op = op, !.arg = Some(qc),
                                    !.before = Some(QACacheValue), !.t = now])
    /\ UNCHANGED <<now, cache_vars, service_vars, last>>

\* if key in self.cache:
QAGetIn ==
    /\ \E r \in Requests :
         /\ At(r, "get_in")
         /\ \E key \in {_generate_key(call.frames[r].arg[1][1],
                                      call.frames[r].arg[1][2])} :
              call' = Executed(r, [call.frames[r] EXCEPT
                                      !.pc = IF HasKey(qa_cache, key)
                                             THEN "get_entry" ELSE "get_miss"])
    /\ UNCHANGED <<now, cache_vars, service_vars, last>>

\* entry = self.cache[key], the test of its age and the hit
QAGetEntry ==
    /\ \E r \in Requests :
         /\ At(r, "get_entry")
         /\ \E key \in {_generate_key(call.frames[r].arg[1][1],
                                      call.frames[r].arg[1][2])} :
              IF ~HasKey(qa_cache, key)
              THEN /\ call' = Executed(r, Failed(call.frames[r]))
                   /\ UNCHANGED qa_hits
              ELSE IF now - ItemOf(qa_cache, key).timestamp
                          < ItemOf(qa_cache, key).ttl
                   THEN /\ qa_hits' = qa_hits + 1
                        /\ call' = Executed(r, [call.frames[r] EXCEPT
                                       !.pc = "done",
                                       !.result = Some(ItemOf(qa_cache, key).result)])
                   ELSE /\ UNCHANGED qa_hits
                        /\ call' = Executed(r, [call.frames[r] EXCEPT
                                                   !.pc = "get_del"])
    /\ UNCHANGED <<now, qa_cache, qa_misses, sc_cache, sc_timestamps,
                   service_vars, last>>

\* del self.cache[key]
QAGetDel ==
    /\ \E r \in Requests :
         /\ At(r, "get_del")
         /\ \E key \in {_generate_key(call.frames[r].arg[1][1],
                                      call.frames[r].arg[1][2])} :
              IF ~HasKey(qa_cache, key)
              THEN /\ call' = Executed(r, Failed(call.frames[r]))
                   /\ UNCHANGED qa_cache
              ELSE /\ qa_cache' = DelKey(qa_cache, key)
                   /\ call' = Executed(r, [call.frames[r] EXCEPT !.pc = "get_miss"])
    /\ UNCHANGED <<now, qa_hits, qa_misses, sc_cache, sc_timestamps,
                   service_vars, last>>

\* self.misses += 1; return None
QAGetMiss ==
    /\ \E r \in Requests :
         /\ At(r, "get_miss")
         /\ qa_misses' = qa_misses + 1
         /\ call' = Executed(r, [call.frames[r] EXCEPT !.pc = "done"])
    /\ UNCHANGED <<now, qa_cache, qa_hits, sc_cache, sc_timestamps,
                   service_vars, last>>

\* if len(self.cache) >= self.max_size:
QASetLen ==
    /\ \E r \in Requests :
         /\ At(r, "set_len")
         /\ call.cache = "QACache"
         /\ call' = Executed(r, [call.frames[r] EXCEPT
                                    !.pc = IF Len(qa_cache) >= max_size
                                           THEN "set_min" ELSE "set_store"])
    /\ UNCHANGED <<now, cache_vars, service_vars, last>>

\* oldest_key = min(self.cache.keys(), key=...), which raises on no keys
QASetMin ==
    /\ \E r \in Requests :
         /\ At(r, "set_min")
         /\ call' = Executed(r, IF qa_cache = <<>> THEN Failed(call.frames[r])
                                ELSE [call.frames[r] EXCEPT
                                         !.pc = "set_del",
                                         !.oldest_key = Some(OldestKey(qa_cache))])
    /\ UNCHANGED <<now, cache_vars, service_vars, last>>

\* del self.cache[oldest_key]
QASetDel ==
    /\ \E r \in Requests :
         /\ At(r, "set_del")
         /\ \E oldest_key \in {call.frames[r].oldest_key[1]} :
              IF ~HasKey(qa_cache, oldest_key)
              THEN /\ call' = Executed(r, Failed(call.frames[r]))
                   /\ UNCHANGED qa_cache
              ELSE /\ qa_cache' = DelKey(qa_cache, oldest_key)
                   /\ call' = Executed(r, [call.frames[r] EXCEPT !.pc = "set_store"])
    /\ UNCHANGED <<now, qa_hits, qa_misses, sc_cache, sc_timestamps,
                   service_vars, last>>

\* self.cache[key] = CacheEntry(...)
QASetStore ==
    /\ \E r \in Requests :
         /\ At(r, "set_store")
         /\ qa_cache' = SetItem(qa_cache,
                                [key |-> _generate_key(call.frames[r].arg[1][1],
                                                       call.frames[r].arg[1][2]),
                                 result |-> "29", timestamp |-> now,
                                 ttl |-> default_ttl])
         /\ call' = Executed(r, [call.frames[r] EXCEPT !.pc = "done"])
    /\ UNCHANGED <<now, qa_hits, qa_misses, sc_cache, sc_timestamps,
                   service_vars, last>>

\* a request enters get or set of the Classification Cache
SCEnter ==
    /\ call.cache = "SimpleCache"
    /\ \E r \in Requests, op \in {"get", "set"}, text \in CachedTexts :
         /\ At(r, "idle")
         /\ call' = Executed(r, [IdleFrame EXCEPT
                                    !.pc = IF op = "get" THEN "get_test"
                                           ELSE "set_cleanup",
                                    !.op = op, !.arg = Some(text),
                                    !.before = Some(SimpleCacheValue), !.t = now])
    /\ UNCHANGED <<now, cache_vars, service_vars, last>>

\* if key in self.cache and not self._is_expired(key):
SCGetTest ==
    /\ \E r \in Requests :
         /\ At(r, "get_test")
         /\ \E key \in {_get_cache_key(call.frames[r].arg[1])} :
              call' = Executed(r, [call.frames[r] EXCEPT
                                      !.pc = IF /\ HasKey(sc_cache, key)
                                                /\ ~_is_expired(SimpleCacheValue,
                                                                key, now)
                                             THEN "get_return" ELSE "done"])
    /\ UNCHANGED <<now, cache_vars, service_vars, last>>

\* return self.cache[key]
SCGetReturn ==
    /\ \E r \in Requests :
         /\ At(r, "get_return")
         /\ \E key \in {_get_cache_key(call.frames[r].arg[1])} :
              call' = Executed(r, IF ~HasKey(sc_cache, key)
                                  THEN Failed(call.frames[r])
                                  ELSE [call.frames[r] EXCEPT
                                           !.pc = "done",
                                           !.result =
                                               Some(ItemOf(sc_cache, key).result)])
    /\ UNCHANGED <<now, cache_vars, service_vars, last>>

\* self._cleanup_expired(): the keys are popped with a default
SCSetCleanup ==
    /\ \E r \in Requests :
         /\ At(r, "set_cleanup")
         /\ \E cleaned \in {_cleanup_expired(SimpleCacheValue, now)} :
              /\ sc_cache' = cleaned.cache
              /\ sc_timestamps' = cleaned.timestamps
         /\ call' = Executed(r, [call.frames[r] EXCEPT !.pc = "set_len"])
    /\ UNCHANGED <<now, qa_cache, qa_hits, qa_misses, service_vars, last>>

\* if len(self.cache) >= self.max_size:
SCSetLen ==
    /\ \E r \in Requests :
         /\ At(r, "set_len")
         /\ call.cache = "SimpleCache"
         /\ call' = Executed(r, [call.frames[r] EXCEPT
                                    !.pc = IF Len(sc_cache) >= max_size
                                           THEN "set_oldest" ELSE "set_result"])
    /\ UNCHANGED <<now, cache_vars, service_vars, last>>

\* oldest_key = min(self.timestamps.keys(), key=...), which raises on no
\* keys
SCSetOldest ==
    /\ \E r \in Requests :
         /\ At(r, "set_oldest")
         /\ call' = Executed(r, IF sc_timestamps = <<>> THEN Failed(call.frames[r])
                                ELSE [call.frames[r] EXCEPT
                                         !.pc = "set_pop",
                                         !.oldest_key =
                                             Some(OldestKey(sc_timestamps))])
    /\ UNCHANGED <<now, cache_vars, service_vars, last>>

\* self.cache.pop(oldest_key, None); self.timestamps.pop(oldest_key, None)
SCSetPop ==
    /\ \E r \in Requests :
         /\ At(r, "set_pop")
         /\ sc_cache' = DelKey(sc_cache, call.frames[r].oldest_key[1])
         /\ sc_timestamps' = DelKey(sc_timestamps, call.frames[r].oldest_key[1])
         /\ call' = Executed(r, [call.frames[r] EXCEPT !.pc = "set_result"])
    /\ UNCHANGED <<now, qa_cache, qa_hits, qa_misses, service_vars, last>>

\* self.cache[key] = result
SCSetResult ==
    /\ \E r \in Requests :
         /\ At(r, "set_result")
         /\ sc_cache' = SetItem(sc_cache,
                                [key |-> _get_cache_key(call.frames[r].arg[1]),
                                 result |-> "billing_support"])
         /\ call' = Executed(r, [call.frames[r] EXCEPT !.pc = "set_timestamp"])
    /\ UNCHANGED <<now, qa_cache, qa_hits, qa_misses, sc_timestamps,
                   service_vars, last>>

\* self.timestamps[key] = time.time()
SCSetTimestamp ==
    /\ \E r \in Requests :
         /\ At(r, "set_timestamp")
         /\ sc_timestamps' = SetItem(sc_timestamps,
                                     [key |-> _get_cache_key(call.frames[r].arg[1]),
                                      timestamp |-> now])
         /\ call' = Executed(r, [call.frames[r] EXCEPT !.pc = "done"])
    /\ UNCHANGED <<now, qa_cache, qa_hits, qa_misses, sc_cache,
                   service_vars, last>>

\* the method returns, or raises, to the request, and the request ends
RequestEnds ==
    /\ \E r \in Requests :
         /\ At(r, "done")
         /\ call' = Executed(r, IdleFrame)
         /\ last' = [op |-> call.frames[r].op, cache |-> call.cache,
                     request |-> r, failed |-> call.frames[r].failed]
    /\ UNCHANGED <<now, cache_vars, service_vars>>

NextConcurrent ==
    \/ ClockAdvances
    \/ QAEnter \/ QAGetIn \/ QAGetEntry \/ QAGetDel \/ QAGetMiss
    \/ QASetLen \/ QASetMin \/ QASetDel \/ QASetStore
    \/ SCEnter \/ SCGetTest \/ SCGetReturn
    \/ SCSetCleanup \/ SCSetLen \/ SCSetOldest \/ SCSetPop
    \/ SCSetResult \/ SCSetTimestamp
    \/ RequestEnds

SpecConcurrent == InitConcurrent /\ [][NextConcurrent]_vars

(***************************************************************************)
(* A request and its calls to the pipelines, a call being a step that      *)
(* begins and a step that ends.  The pipelines are called directly, with   *)
(* nothing that bounds the wait: a call returns, raises, or never ends,    *)
(* and no step of the code ends it from outside.  The handlers are loaded  *)
(* and the Answer Cache is empty.  call.pc is the call the request waits   *)
(* in.  The steps are weakly fair: a call that ends does end, and the      *)
(* event loop runs a request that can run.                                 *)
(***************************************************************************)
NeverReturns == [kind |-> "never"]

PendingClassifications ==
    [op : {"classify_intent"}, pc : {"start"}, text : Texts,
     qa : HandlerQAOutcomes \cup {NeverReturns},
     cls : {PipelineRaises, ClassifierOutput(<<>>), NeverReturns}]

PendingExtractions ==
    [op : {"extract_answer"}, pc : {"start"}, question : ExtractQuestions,
     context : ExtractContexts, outcome : ExtractorOutcomes \cup {NeverReturns}]

InitPipelineCalls ==
    /\ now = 0
    /\ qa_cache = <<>> /\ qa_hits = 0 /\ qa_misses = 0
    /\ sc_cache = <<>> /\ sc_timestamps = <<>>
    /\ distilbert_handler = FALSE
    /\ is_loaded = TRUE
    /\ qa_is_loaded = TRUE
    /\ kb_loaded = FALSE
    /\ last = NoCall
    /\ call \in PendingClassifications \cup PendingExtractions

\* classify_intent up to qa_result = self.qa_pipeline(...)
CallQAPipeline ==
    /\ call.op = "classify_intent"
    /\ call.pc = "start"
    /\ call' = [call EXCEPT !.pc = "qa_pipeline"]
    /\ UNCHANGED <<now, cache_vars, service_vars, last>>

\* qa_pipeline returns or raises; at or above 0.3 classify_intent returns,
\* below it goes on to intent_results = self.intent_classifier(text)
QAPipelineEnds ==
    /\ call.op = "classify_intent"
    /\ call.pc = "qa_pipeline"
    /\ call.qa.kind # "never"
    /\ IF Len(ClassifyCalls(TRUE, call.text, call.qa, PipelineRaises)) = 1
       THEN /\ last' = [op |-> "classify_intent", text |-> call.text,
                        calls |-> <<"qa_pipeline">>,
                        out |-> classify_intent(TRUE, call.text, call.qa,
                                                PipelineRaises)]
            /\ call' = NoCall
       ELSE /\ call' = [call EXCEPT !.pc = "intent_classifier"]
            /\ UNCHANGED last
    /\ UNCHANGED <<now, cache_vars, service_vars>>

\* intent_classifier returns or raises, and classify_intent returns
ClassifierEnds ==
    /\ call.op = "classify_intent"
    /\ call.pc = "intent_classifier"
    /\ call.cls.kind # "never"
    /\ last' = [op |-> "classify_intent", text |-> call.text,
                calls |-> <<"qa_pipeline", "intent_classifier">>,
                out |-> classify_intent(TRUE, call.text, call.qa, call.cls)]
    /\ call' = NoCall
    /\ UNCHANGED <<now, cache_vars, service_vars>>

\* extract_answer up to result = self.qa_pipeline(...); it returns before
\* that when its inputs are not valid
CallExtractor ==
    /\ call.op = "extract_answer"
    /\ call.pc = "start"
    /\ \E r \in {extract_answer(QAHandlerValue, call.question, call.context,
                                  Frac(1, 10), PipelineRaises, now)} :
         IF r.called
         THEN /\ call' = [call EXCEPT !.pc = "qa_pipeline"]
              /\ UNCHANGED <<last, qa_cache, qa_hits, qa_misses>>
         ELSE /\ qa_cache' = r.cache.cache
              /\ qa_hits' = r.cache.hits
              /\ qa_misses' = r.cache.misses
              /\ last' = [op |-> "extract_answer", question |-> call.question,
                          context |-> call.context, called |-> FALSE,
                          out |-> r.out]
              /\ call' = NoCall
    /\ UNCHANGED <<now, sc_cache, sc_timestamps, service_vars>>

\* qa_pipeline returns or raises, and extract_answer returns
ExtractorEnds ==
    /\ call.op = "extract_answer"
    /\ call.pc = "qa_pipeline"
    /\ call.outcome.kind # "never"
    /\ \E r \in {extract_answer(QAHandlerValue, call.question, call.context,
                                  Frac(1, 10), call.outcome, now)} :
         /\ qa_cache' = r.cache.cache
         /\ qa_hits' = r.cache.hits
         /\ qa_misses' = r.cache.misses
         /\ last' = [op |-> "extract_answer", question |-> call.question,
                     context |-> call.context, called |-> TRUE, out |-> r.out]
    /\ call' = NoCall
    /\ UNCHANGED <<now, sc_cache, sc_timestamps, service_vars>>

NextPipelineCalls ==
    \/ CallQAPipeline \/ QAPipelineEnds \/ ClassifierEnds
    \/ CallExtractor \/ ExtractorEnds

SpecPipelineCalls ==
    InitPipelineCalls /\ [][NextPipelineCalls]_vars /\ WF_vars(NextPipelineCalls)

(***************************************************************************)
(* A cache under writes alone.  call.written holds the keys written, in    *)
(* the order of the writes, and call.expired whether a write found an      *)
(* expired entry to clean up; QACache.set looks at no entry's age.         *)
(***************************************************************************)
MaxWrites == 3

InitEviction ==
    /\ Constructed
    /\ call \in [op : {"writes"}, cache : {"QACache", "SimpleCache"},
                 written : {<<>>}, expired : {FALSE}]

\* self.cache.set(question, context, result)
QAWrite ==
    /\ call.op = "writes"
    /\ call.cache = "QACache"
    /\ Len(call.written) < MaxWrites
    /\ \E qc \in CachedQuestions :
       \E put \in {QACache_set(QACacheValue, qc[1], qc[2], "29", None, now)} :
         /\ qa_cache' = put.cache
         /\ qa_hits' = put.hits
         /\ qa_misses' = put.misses
         /\ last' = [op |-> "set", cache |-> "QACache",
                     key |-> _generate_key(qc[1], qc[2]),
                     full |-> Len(qa_cache) >= max_size,
                     before |-> [i \in DOMAIN qa_cache |->
                                    [key |-> qa_cache[i].key,
                                     timestamp |-> qa_cache[i].timestamp]]]
         /\ call' = [call EXCEPT
                        !.written = Append(@, _generate_key(qc[1], qc[2]))]
    /\ UNCHANGED <<now, sc_cache, sc_timestamps, service_vars>>

\* classification_cache.set(text, result)
SCWrite ==
    /\ call.op = "writes"
    /\ call.cache = "SimpleCache"
    /\ Len(call.written) < MaxWrites
    /\ \E text \in CachedTexts :
       \E put \in {SimpleCache_set(SimpleCacheValue, text, "billing_support", now)} :
         /\ sc_cache' = put.cache
         /\ sc_timestamps' = put.timestamps
         /\ last' = [op |-> "set", cache |-> "SimpleCache",
                     key |-> _get_cache_key(text),
                     full |-> Len(_cleanup_expired(SimpleCacheValue, now).cache)
                                  >= max_size,
                     before |-> sc_timestamps]
         /\ call' = [call EXCEPT
                        !.written = Append(@, _get_cache_key(text)),
                        !.expired = @ \/ _cleanup_expired(SimpleCacheValue, now)
                                             # SimpleCacheValue]
    /\ UNCHANGED <<now, qa_cache, qa_hits, qa_misses, service_vars>>

NextEviction == Tick \/ QAWrite \/ SCWrite

SpecEviction == InitEviction /\ [][NextEviction]_vars

(***************************************************************************)
(* The writers of the two caches: the /classify endpoint of main.py, the   *)
(* one place that writes the Classification Cache, and extract_answer,     *)
(* the one place that writes the Answer Cache.  As in the caches alone, a  *)
(* behaviour exercises the cache that call.cache names.                    *)
(***************************************************************************)
enable_caching == TRUE

\* request.text, validated and stripped by ClassificationRequest
EndpointTexts == {"hello", "zzzz", "billing refund"}

EndpointQAOutcomes ==
    {PipelineRaises, QAOutput("Universitas", Frac(5, 12)),
     QAOutput("Universitas", One)}

EndpointClassifierOutcomes ==
    {PipelineRaises, ClassifierOutput(<<[label |-> "LABEL_9", score |-> One]>>)}

\* the endpoint with the write gate weakened to >=
Mutant_classify_endpoint(c, loaded, text, qa, cls, t) ==
    LET Classified(result) ==
            IF result.raised
            THEN [out |-> Raise("Failed to classify text: " \o result.error),
                  cache |-> c, cached |-> FALSE]
            ELSE [out |-> Return(result.value),
                  cache |-> IF enable_caching
                               /\ result.value.confidence >= Frac(1, 2)
                            THEN SimpleCache_set(c, text, result.value, t)
                            ELSE c,
                  cached |-> FALSE]
        Got(cached_result) ==
            IF cached_result # None
            THEN [out |-> Return(cached_result[1]), cache |-> c, cached |-> TRUE]
            ELSE IF ~loaded
            THEN [out |-> Raise("Failed to classify text: DistilBERT model not loaded"),
                  cache |-> c, cached |-> FALSE]
            ELSE Classified(classify_intent(loaded, text, qa, cls))
    IN  Got(IF enable_caching THEN SimpleCache_get(c, text, t) ELSE None)

\* main.classify_intent, the /classify endpoint; c is classification_cache
\* and loaded is distilbert_handler.is_loaded
classify_endpoint(c, loaded, text, qa, cls, t) ==
    LET Classified(result) ==
            IF result.raised
            THEN [out |-> Raise("Failed to classify text: " \o result.error),
                  cache |-> c, cached |-> FALSE]
            ELSE [out |-> Return(result.value),
                  cache |-> IF enable_caching
                               /\ result.value.confidence > Frac(1, 2)
                            THEN SimpleCache_set(c, text, result.value, t)
                            ELSE c,
                  cached |-> FALSE]
        Got(cached_result) ==
            IF cached_result # None
            THEN [out |-> Return(cached_result[1]), cache |-> c, cached |-> TRUE]
            ELSE IF ~loaded
            THEN [out |-> Raise("Failed to classify text: DistilBERT model not loaded"),
                  cache |-> c, cached |-> FALSE]
            ELSE Classified(classify_intent(loaded, text, qa, cls))
    IN  Got(IF enable_caching THEN SimpleCache_get(c, text, t) ELSE None)

InitGating ==
    /\ now = 0
    /\ qa_cache = <<>> /\ qa_hits = 0 /\ qa_misses = 0
    /\ sc_cache = <<>> /\ sc_timestamps = <<>>
    /\ distilbert_handler = FALSE
    /\ kb_loaded = FALSE
    /\ last = NoCall
    /\ call \in [op : {"writers"}, cache : {"QACache", "SimpleCache"}]
    /\ is_loaded \in BOOLEAN
    /\ qa_is_loaded = (call.cache = "QACache")

\* a request to /classify
ClassifyEndpoint ==
    /\ call.op = "writers"
    /\ call.cache = "SimpleCache"
    /\ \E text \in EndpointTexts, qa \in EndpointQAOutcomes,
          cls \in EndpointClassifierOutcomes :
       \E r \in {classify_endpoint(SimpleCacheValue, is_loaded, text, qa, cls, now)} :
         /\ sc_cache' = r.cache.cache
         /\ sc_timestamps' = r.cache.timestamps
         /\ last' = [op |-> "classify", text |-> text, cached |-> r.cached,
                     before |-> SimpleCacheValue, out |-> r.out]
    /\ UNCHANGED <<now, qa_cache, qa_hits, qa_misses, service_vars, call>>

\* a call of extract_answer on the initialized handler
ExtractByWriter ==
    /\ call.op = "writers"
    /\ call.cache = "QACache"
    /\ ExtractAnswer

NextGating == Tick \/ ClassifyEndpoint \/ ExtractByWriter

SpecGating == InitGating /\ [][NextGating]_vars

(***************************************************************************)
(* The caches with their statistics read.  call.returned and call.missed   *)
(* count the gets since the last clear that returned a value and that      *)
(* returned none.                                                          *)
(***************************************************************************)
MaxCounted == 2

QACache_stats(c) ==
    [hits |-> c.hits, misses |-> c.misses,
     hit_rate |-> IF c.hits + c.misses > 0
                  THEN Frac(c.hits, c.hits + c.misses) ELSE 0,
     size |-> Len(c.cache), max_size |-> max_size]

\* the object has no attributes _hits and _requests: getattr gives the
\* defaults 0 and 1
SimpleCache_stats(c) ==
    LET HitRate(_hits, _requests) ==
            _hits \div (IF _requests > 1 THEN _requests ELSE 1)
    IN  [size |-> Len(c.cache), max_size |-> max_size,
         ttl_seconds |-> ttl_seconds, hit_rate |-> HitRate(0, 1)]

InitStats ==
    /\ Constructed
    /\ call \in [op : {"counted"}, cache : {"QACache", "SimpleCache"},
                 returned : {0}, missed : {0}]

\* get, counted by what it returns
CountedGet ==
    /\ call.op = "counted"
    /\ call.returned + call.missed < MaxCounted
    /\ IF call.cache = "QACache"
       THEN \E qc \in CachedQuestions :
            \E got \in {QACache_get(QACacheValue, qc[1], qc[2], now)} :
              /\ qa_cache' = got.cache
              /\ qa_hits' = got.hits
              /\ qa_misses' = got.misses
              /\ last' = [op |-> "get", cache |-> "QACache", result |-> got.result]
              /\ call' = IF got.result # None
                         THEN [call EXCEPT !.returned = @ + 1]
                         ELSE [call EXCEPT !.missed = @ + 1]
              /\ UNCHANGED <<sc_cache, sc_timestamps>>
       ELSE \E text \in CachedTexts :
            \E result \in {SimpleCache_get(SimpleCacheValue, text, now)} :
              /\ last' = [op |-> "get", cache |-> "SimpleCache", result |-> result]
              /\ call' = IF result # None
                         THEN [call EXCEPT !.returned = @ + 1]
                         ELSE [call EXCEPT !.missed = @ + 1]
              /\ UNCHANGED cache_vars
    /\ UNCHANGED <<now, service_vars>>

CountedSet ==
    /\ call.op = "counted"
    /\ IF call.cache = "QACache"
       THEN \E qc \in CachedQuestions :
            \E put \in {QACache_set(QACacheValue, qc[1], qc[2], "29", None, now)} :
              /\ qa_cache' = put.cache
              /\ qa_hits' = put.hits
              /\ qa_misses' = put.misses
              /\ UNCHANGED <<sc_cache, sc_timestamps>>
       ELSE \E text \in CachedTexts :
            \E put \in {SimpleCache_set(SimpleCacheValue, text, "billing_support",
                                        now)} :
              /\ sc_cache' = put.cache
              /\ sc_timestamps' = put.timestamps
              /\ UNCHANGED <<qa_cache, qa_hits, qa_misses>>
    /\ last' = [op |-> "set", cache |-> call.cache]
    /\ UNCHANGED <<now, service_vars, call>>

CountedClear ==
    /\ call.op = "counted"
    /\ IF call.cache = "QACache"
       THEN /\ qa_cache' = QACache_clear(QACacheValue).cache
            /\ qa_hits' = QACache_clear(QACacheValue).hits
            /\ qa_misses' = QACache_clear(QACacheValue).misses
            /\ UNCHANGED <<sc_cache, sc_timestamps>>
       ELSE /\ sc_cache' = SimpleCache_clear(SimpleCacheValue).cache
            /\ sc_timestamps' = SimpleCache_clear(SimpleCacheValue).timestamps
            /\ UNCHANGED <<qa_cache, qa_hits, qa_misses>>
    /\ last' = [op |-> "clear", cache |-> call.cache]
    /\ call' = [call EXCEPT !.returned = 0, !.missed = 0]
    /\ UNCHANGED <<now, service_vars>>

\* stats()
ReadStats ==
    /\ call.op = "counted"
    /\ last' = [op |-> "stats", cache |-> call.cache,
                stats |-> IF call.cache = "QACache"
                          THEN QACache_stats(QACacheValue)
                          ELSE SimpleCache_stats(SimpleCacheValue)]
    /\ UNCHANGED <<now, cache_vars, service_vars, call>>

NextStats == Tick \/ CountedGet \/ CountedSet \/ CountedClear \/ ReadStats

SpecStats == InitStats /\ [][NextStats]_vars

(***************************************************************************)
(* KnowledgeBase.search_related_contexts alone.  The file read at startup  *)
(* lists up to four intents in a fixed order; each item has one of two     *)
(* categories or none, and a context or none.                              *)
(***************************************************************************)
MaxLimit == 3

StoredIntents ==
    <<"pricing_basic", "billing_support", "pricing_api", "pricing_add_ons">>

Categories == {"Pricing", "Account", ""}

\* the items the file may hold for an intent; <<>> when it leaves it out
ItemsOf(key) ==
    {<<>>} \cup {<<[key |-> key, context |-> context, category |-> category]>> :
                    context \in {"", "About " \o key}, category \in Categories}

KnowledgeFiles ==
    {a \o b \o c \o e : a \in ItemsOf(StoredIntents[1]), b \in ItemsOf(StoredIntents[2]),
                        c \in ItemsOf(StoredIntents[3]), e \in ItemsOf(StoredIntents[4])}

InitRelated ==
    /\ now = 0
    /\ qa_cache = <<>> /\ qa_hits = 0 /\ qa_misses = 0
    /\ sc_cache = <<>> /\ sc_timestamps = <<>>
    /\ distilbert_handler = TRUE
    /\ is_loaded = TRUE
    /\ qa_is_loaded = TRUE
    /\ kb_loaded \in BOOLEAN
    /\ last = NoCall
    /\ call \in [op : {"search_related_contexts"},
                 knowledge : KnowledgeFiles,
                 intent : {"pricing_basic", "billing_support", "pricing_api"},
                 limit : 0..MaxLimit]

SearchRelatedContexts ==
    /\ call.op = "search_related_contexts"
    /\ last' = [op |-> "search_related_contexts",
                knowledge |-> call.knowledge,
                intent |-> call.intent,
                limit |-> call.limit,
                out |-> search_related_contexts(
                            [loaded |-> kb_loaded, knowledge |-> call.knowledge],
                            call.intent, call.limit)]
    /\ call' = NoCall
    /\ UNCHANGED <<now, cache_vars, service_vars>>

NextRelated == SearchRelatedContexts

SpecRelated == InitRelated /\ [][NextRelated]_vars

(***************************************************************************)
(* The scores of _keyword_classification alone: one text is scored for     *)
(* one row of INTENT_KEYWORDS.                                             *)
(***************************************************************************)
ScoredTexts ==
    {"", "zzzz", "starter", "customize it", "custom plans?", "which plans",
     "Api Pricing", "the custom one"}

InitScore ==
    /\ now = 0
    /\ qa_cache = <<>> /\ qa_hits = 0 /\ qa_misses = 0
    /\ sc_cache = <<>> /\ sc_timestamps = <<>>
    /\ distilbert_handler = TRUE
    /\ is_loaded = TRUE
    /\ qa_is_loaded = TRUE
    /\ kb_loaded = TRUE
    /\ last = NoCall
    /\ call \in [op : {"intent_scores"}, text : ScoredTexts,
                 row : 1..Len(INTENT_KEYWORDS)]

ScoreIntent ==
    /\ call.op = "intent_scores"
    /\ last' = [op |-> "intent_scores", text |-> call.text, row |-> call.row,
                out |-> intent_scores(call.text)[call.row]]
    /\ call' = NoCall
    /\ UNCHANGED <<now, cache_vars, service_vars>>

NextScore == ScoreIntent

SpecScore == InitScore /\ [][NextScore]_vars

(***************************************************************************)
(* The Classification Cache alone, under texts of which two differ only in *)
(* letter case and surrounding whitespace.                                 *)
(***************************************************************************)
KeyTexts == {"hello", " Hello ", "starter", "Starter"}

InitKeys ==
    /\ Constructed
    /\ call = [op |-> "cache", cache |-> "SimpleCache"]

SetClassification ==
    /\ \E text \in KeyTexts, result \in CachedClassifications :
       \E put \in {SimpleCache_set(SimpleCacheValue, text, result, now)} :
         /\ sc_cache' = put.cache
         /\ sc_timestamps' = put.timestamps
         /\ last' = [op |-> "set", text |-> text, result |-> result]
    /\ UNCHANGED <<now, qa_cache, qa_hits, qa_misses, service_vars, call>>

ClearClassifications ==
    /\ sc_cache' = SimpleCache_clear(SimpleCacheValue).cache
    /\ sc_timestamps' = SimpleCache_clear(SimpleCacheValue).timestamps
    /\ last' = [op |-> "clear"]
    /\ UNCHANGED <<now, qa_cache, qa_hits, qa_misses, service_vars, call>>

NextKeys == Tick \/ SetClassification \/ ClearClassifications

SpecKeys == InitKeys /\ [][NextKeys]_vars

(***************************************************************************)
(* The two endpoints a query enters through, /classify and /chat, on the   *)
(* service after a startup in which the models were loaded and the         *)
(* knowledge file was not found.  random.choice draws its first option.    *)
(***************************************************************************)
InitEndpoints ==
    /\ now = 0
    /\ qa_cache = <<>> /\ qa_hits = 0 /\ qa_misses = 0
    /\ sc_cache = <<>> /\ sc_timestamps = <<>>
    /\ distilbert_handler = TRUE
    /\ is_loaded = TRUE
    /\ qa_is_loaded = TRUE
    /\ kb_loaded = FALSE
    /\ last = NoCall
    /\ call = [op |-> "writers", cache |-> "SimpleCache"]

\* a request to /chat: chat_conversation hands the message to
\* hybrid_generator.generate_response
ChatEndpoint ==
    /\ call.op = "writers"
    /\ \E message \in EndpointTexts, qa \in RespondQAOutcomes,
          cls \in RespondClassifierOutcomes :
       \E calls \in {ClassifyCalls(is_loaded, message, qa, cls)} :
         /\ (Len(calls) < 2 => cls = PipelineRaises)
         /\ \E r \in {generate_response(GeneratorValue, message, qa, cls,
                                        NoOutcomes, 0, now)} :
              /\ qa_cache' = r.cache.cache
              /\ qa_hits' = r.cache.hits
              /\ qa_misses' = r.cache.misses
              /\ last' = [op |-> "chat", text |-> message,
                          before |-> SimpleCacheValue, at |-> now,
                          calls |-> calls, classification |-> r.classification,
                          mode |-> r.mode, out |-> r.out]
    /\ UNCHANGED <<now, sc_cache, sc_timestamps, service_vars, call>>

NextEndpoints == Tick \/ ClassifyEndpoint \/ ChatEndpoint

SpecEndpoints == InitEndpoints /\ [][NextEndpoints]_vars

(***************************************************************************)
(* _keyword_classification alone, on texts of one or two words taken from  *)
(* the keyword table; several of the words are keywords of two intents.    *)
(***************************************************************************)
TieWords ==
    {"implementation", "custom", "connect", "advanced", "privacy",
     "performance", "starter", "zzzz"}

TieTexts == TieWords \cup {a \o " " \o b : a, b \in TieWords}

InitTies ==
    /\ now = 0
    /\ qa_cache = <<>> /\ qa_hits = 0 /\ qa_misses = 0
    /\ sc_cache = <<>> /\ sc_timestamps = <<>>
    /\ distilbert_handler = TRUE
    /\ is_loaded = TRUE
    /\ qa_is_loaded = TRUE
    /\ kb_loaded = TRUE
    /\ last = NoCall
    /\ call \in [op : {"_keyword_classification"}, text : TieTexts]

KeywordClassification ==
    /\ call.op = "_keyword_classification"
    /\ last' = [op |-> "_keyword_classification", text |-> call.text,
                scores |-> intent_scores(call.text),
                out |-> _keyword_classification(call.text)]
    /\ call' = NoCall
    /\ UNCHANGED <<now, cache_vars, service_vars>>

NextTies == KeywordClassification

SpecTies == InitTies /\ [][NextTies]_vars

(***************************************************************************)
(* The Answer Cache alone, under (question, context) pairs that hold the   *)
(* separator of the key.  The result stored under a pair is the one the    *)
(* extractor gave for that pair, which names it.                           *)
(***************************************************************************)
SeparatorPairs ==
    {<<"plan||price", "basic">>, <<"plan", "price||basic">>,
     <<"plan", "basic">>, <<"price", "basic">>}

ResultFor(question, context) ==
    [answer |-> "29", question |-> question, context |-> context]

InitPairs ==
    /\ Constructed
    /\ call = [op |-> "cache", cache |-> "QACache"]

SetPair ==
    /\ \E qc \in SeparatorPairs :
       \E put \in {QACache_set(QACacheValue, qc[1], qc[2],
                               ResultFor(qc[1], qc[2]), None, now)} :
         /\ qa_cache' = put.cache
         /\ qa_hits' = put.hits
         /\ qa_misses' = put.misses
         /\ last' = [op |-> "set", question |-> qc[1], context |-> qc[2]]
    /\ UNCHANGED <<now, sc_cache, sc_timestamps, service_vars, call>>

GetPair ==
    /\ qa_hits + qa_misses < MaxLookups
    /\ \E qc \in SeparatorPairs :
       \E got \in {QACache_get(QACacheValue, qc[1], qc[2], now)} :
         /\ qa_cache' = got.cache
         /\ qa_hits' = got.hits
         /\ qa_misses' = got.misses
         /\ last' = [op |-> "get", question |-> qc[1], context |-> qc[2],
                     result |-> got.result]
    /\ UNCHANGED <<now, sc_cache, sc_timestamps, service_vars, call>>

NextPairs == Tick \/ SetPair \/ GetPair

SpecPairs == InitPairs /\ [][NextPairs]_vars

(***************************************************************************)
(* QAHandler.extract_answer called with the confidence_threshold of the    *)
(* caller's choice, on an initialized handler.                             *)
(***************************************************************************)
Thresholds == {Frac(1, 10), Frac(8, 10)}

InitThreshold ==
    /\ now = 0
    /\ qa_cache = <<>> /\ qa_hits = 0 /\ qa_misses = 0
    /\ sc_cache = <<>> /\ sc_timestamps = <<>>
    /\ distilbert_handler = FALSE
    /\ is_loaded = FALSE
    /\ qa_is_loaded = TRUE
    /\ kb_loaded = FALSE
    /\ last = NoCall
    /\ call = [op |-> "extract_answer"]

ExtractAboveThreshold ==
    /\ qa_hits + qa_misses < MaxLookups
    /\ \E question \in ExtractQuestions, context \in ExtractContexts,
          outcome \in ExtractorOutcomes, confidence_threshold \in Thresholds :
       \E r \in {extract_answer(QAHandlerValue, question, context,
                                confidence_threshold, outcome, now)} :
         \* a call that does not reach qa_pipeline has one outcome only
         /\ (~r.called => outcome = PipelineRaises)
         /\ qa_cache' = r.cache.cache
         /\ qa_hits' = r.cache.hits
         /\ qa_misses' = r.cache.misses
         /\ last' = [op |-> "extract_answer", question |-> question,
                     context |-> context,
                     confidence_threshold |-> confidence_threshold,
                     called |-> r.called,
                     out |-> r.out]
    /\ UNCHANGED <<now, sc_cache, sc_timestamps, service_vars, call>>

NextThreshold == Tick \/ ExtractAboveThreshold

SpecThreshold == InitThreshold /\ [][NextThreshold]_vars

(***************************************************************************)
(* Claims on the mode router and on classify_intent.                       *)
(***************************************************************************)
Routed == last.op = "_determine_mode"

\* C6: for an intent outside the conversational set the router returns
\* knowledge exactly when the intent is a knowledge intent and the
\* confidence is strictly above 0.3, and fallback in every other case.
C6_KnowledgeIffAboveThreshold ==
    (Routed /\ last.intent \notin CONVERSATIONAL_INTENTS) =>
        /\ last.mode = "knowledge" <=>
              (last.intent \in KNOWLEDGE_INTENTS /\ last.confidence > Frac(3, 10))
        /\ last.mode # "knowledge" => last.mode = "fallback"

\* a knowledge intent exactly at the threshold was routed to fallback
C6_Witness ==
    /\ Routed
    /\ last.intent \in KNOWLEDGE_INTENTS
    /\ last.confidence = Frac(3, 10)
    /\ last.mode = "fallback"

Classified == last.op = "classify_intent" /\ ~last.out.raised

\* the classifier was called and returned at least one score
ClassifierSucceeded == last.cls.kind = "ok" /\ Len(last.cls.results) > 0

\* the classifier was called and raised or returned no scores
ClassifierFailed ==
    /\ "intent_classifier" \in Range(last.calls)
    /\ (last.cls.kind = "raise" \/ Len(last.cls.results) = 0)

\* C7: the result of classify_intent has a confidence in [0,1] and an
\* intent of settings.intent_labels.
C7_ResultInConfiguredSet ==
    Classified =>
        /\ last.out.value.confidence \in 0..One
        /\ last.out.value.intent \in Range(intent_labels)

\* the part of C7 the code keeps: the confidence is in [0,1]
C7_ConfidenceInUnitInterval ==
    Classified => last.out.value.confidence \in 0..One

\* the classifier's top result, as the claims read it: the label LABEL_i
\* names the i-th configured intent
TopIsConfiguredLabel(results) ==
    \E i \in 0..(Len(intent_labels) - 1) :
        BestResult(results).label \in {"LABEL_" \o ToString(i)}

TopIntent(results) ==
    intent_labels[1 + CHOOSE i \in 0..(Len(intent_labels) - 1) :
                        BestResult(results).label = "LABEL_" \o ToString(i)]

\* the three fusion rules of the claim, applied in order
FusionRules(neural_intent, neural_confidence, keyword_intent, keyword_confidence) ==
    IF /\ neural_intent = keyword_intent
       /\ neural_confidence > Frac(4, 10)
       /\ keyword_confidence > Frac(3, 10)
    THEN [intent |-> neural_intent,
          confidence |-> Min((neural_confidence * 11) \div 10, Frac(85, 100)),
          source |-> "hybrid_classification"]
    ELSE IF keyword_confidence > neural_confidence
    THEN [intent |-> keyword_intent, confidence |-> keyword_confidence,
          source |-> "keyword_classification"]
    ELSE [intent |-> neural_intent, confidence |-> neural_confidence,
          source |-> "neural_classification"]

FusedByRules ==
    LET keyword_result == keyword_classification[preprocessed[last.text]]
    IN  last.out.value =
            FusionRules(TopIntent(last.cls.results),
                        BestResult(last.cls.results).score,
                        keyword_result.intent, keyword_result.confidence)

\* the confidence of the direct question-answering step on the last text
DirectQAConfidence ==
    _question_answering_approach(preprocessed[last.text], last.qa).confidence

\* C8 as stated: whenever the classifier succeeds, the three rules alone
\* fix the result.
C8_RulesAloneDecide ==
    (Classified /\ ClassifierSucceeded /\ TopIsConfiguredLabel(last.cls.results))
        => FusedByRules

\* C8 as amended: the direct question-answering step decides the result when
\* its confidence is at least 0.3; below that, the three rules fix it when
\* the top label is LABEL_i of a configured intent, and the keyword result is
\* returned when the top label is any other.
C8_RulesDecideAfterDirectQA ==
    (Classified /\ ClassifierSucceeded) =>
        IF DirectQAConfidence >= Frac(3, 10)
        THEN /\ last.out.value.source = "distilbert_qa"
             /\ last.out.value.confidence = DirectQAConfidence
             /\ last.calls = <<"qa_pipeline">>
        ELSE IF TopIsConfiguredLabel(last.cls.results)
        THEN FusedByRules
        ELSE last.out.value = keyword_classification[preprocessed[last.text]]

\* the agreement rule fired: classifier and keywords named the same intent
C8_Witness ==
    /\ Classified
    /\ ClassifierSucceeded
    /\ DirectQAConfidence < Frac(3, 10)
    /\ last.out.value.source = "hybrid_classification"
    /\ last.out.value.confidence = Frac(85, 100)

\* C9: when the classifier raises or returns no scores, classify_intent
\* returns the keyword result alone, with the keyword source, and raises
\* nothing.
C9_KeywordResultOnClassifierFailure ==
    (last.op = "classify_intent" /\ ClassifierFailed) =>
        /\ ~last.out.raised
        /\ last.out.value.source = "keyword_matching"
        /\ last.out.value.intent =
               keyword_classification[preprocessed[last.text]].intent
        /\ last.out.value.confidence =
               keyword_classification[preprocessed[last.text]].confidence

\* the classifier raised on a text with a keyword match
C9_Witness ==
    /\ last.op = "classify_intent"
    /\ ClassifierFailed
    /\ last.cls.kind = "raise"
    /\ ~last.out.raised
    /\ last.out.value.intent = "billing_support"

(***************************************************************************)
(* Claims on the two caches.                                               *)
(***************************************************************************)
\* C2: in every state reachable by get, set and clear, the Answer Cache and
\* the Classification Cache each hold at most max_size entries
C2_SizeAtMostMaxSize ==
    /\ Len(qa_cache) <= max_size
    /\ Len(sc_cache) <= max_size
    /\ Len(sc_timestamps) <= max_size

\* a set on a full cache has evicted an entry and left the cache full
C2_Witness ==
    /\ last.op = "set"
    /\ last.full
    /\ (IF last.cache = "QACache" THEN Len(qa_cache) ELSE Len(sc_cache)) = max_size

GotStored == last.op = "get" /\ last.stored

\* C3: in both caches a get of a stored entry is a hit when the entry's age
\* is at most its time-to-live, age exactly the time-to-live included, and a
\* miss when its age is greater
C3_HitUpToTTLMissAfter ==
    GotStored =>
        /\ (last.age <= last.ttl => last.result # None)
        /\ (last.age > last.ttl => last.result = None)

\* what the code does: the Classification Cache hits up to and including
\* the time-to-live, the Answer Cache only below it
C3_HitAsCoded ==
    GotStored =>
        IF last.cache = "SimpleCache"
        THEN (last.result # None) <=> (last.age <= last.ttl)
        ELSE (last.result # None) <=> (last.age < last.ttl)

C3_AtTTL == GotStored /\ last.age = last.ttl

(***************************************************************************)
(* Claims on extract_answer.                                               *)
(***************************************************************************)
\* the call found the result of an earlier call stored for its question and
\* context, of an age within its time-to-live
WarmCall ==
    /\ last.op = "extract_answer"
    /\ last.stored # None
    /\ last.age <= last.stored[1].ttl

\* C4: when extract_answer has stored its result for a question and context
\* and the entry has neither expired (its age is at most its time-to-live)
\* nor been evicted, a repeated call returns that very result and does not
\* call qa_pipeline again
C4_WarmCallReturnsStoredResult ==
    WarmCall =>
        /\ ~last.called
        /\ last.out = Return(Some(last.stored[1].result))

\* what the code does: the same, for an entry of an age below its
\* time-to-live
C4_WarmBelowTTL ==
    (WarmCall /\ last.age < last.stored[1].ttl) =>
        /\ ~last.called
        /\ last.out = Return(Some(last.stored[1].result))

C4_WarmHit == WarmCall /\ ~last.called

(***************************************************************************)
(* Claims on the chat service.                                             *)
(***************************************************************************)
\* a request answered by a generator whose classification handler is set
Responded == last.op = "generate_response" /\ last.generator.distilbert_handler

\* the knowledge base the request saw
KnowledgeBaseSeen ==
    [loaded |-> last.generator.kb_loaded,
     knowledge |-> IF last.generator.kb_loaded THEN knowledge_base_json ELSE <<>>]

\* an exception escapes a step inside generate_response: the classification
\* handler's models are not loaded, or the request is routed to knowledge
\* mode, the knowledge base holds a context for its intent and the
\* extractor's model is not loaded
EscapesInside ==
    \/ ~last.generator.is_loaded
    \/ /\ last.mode = Some("knowledge")
       /\ get_context(KnowledgeBaseSeen, last.classification[1].intent)
              \notin {None, Some("")}
       /\ ~last.generator.qa_is_loaded

GenericApology ==
    /\ last.out.value.message =
           "I apologize, but I'm experiencing technical difficulties. Please try again later."
    /\ last.out.value.intent = "error"
    /\ last.out.value.confidence = 0
    /\ last.out.value.mode = "fallback"
    /\ last.out.value.source = "error"

\* C1: once the classification handler is set, generate_response raises
\* nothing and returns a response whose mode is one of the three modes and
\* whose confidence lies in [0, 1]; the response is the generic apology
\* (confidence 0, mode fallback, source error) exactly when an exception
\* escapes a step inside, that is when the handler's models are not loaded
\* or the extractor is reached unloaded.  Pipelines that raise on a loaded
\* handler are answered from the keyword result instead.
C1_NeverRaisesApologyOnEscape ==
    Responded =>
        /\ ~last.out.raised
        /\ last.out.value.mode \in {"knowledge", "conversational", "fallback"}
        /\ last.out.value.confidence \in 0..One
        /\ (last.out.value.source = "error") <=> EscapesInside
        /\ (last.out.value.source = "error") => GenericApology

\* the extractor is reached with its model not loaded, and the caller gets
\* the generic apology
C1_Witness ==
    /\ Responded
    /\ last.mode = Some("knowledge")
    /\ ~last.generator.qa_is_loaded
    /\ ~last.out.raised
    /\ GenericApology

\* every external capability fails: both pipelines of the handler raise,
\* the extractor's model and the knowledge base are not loaded
TotalFailure ==
    /\ last.qa = PipelineRaises
    /\ last.cls = PipelineRaises
    /\ ~last.generator.qa_is_loaded
    /\ ~last.generator.kb_loaded

\* C1 as stated: the response under total failure is the generic apology
C1_ApologyOnTotalFailure ==
    Responded =>
        /\ ~last.out.raised
        /\ TotalFailure => GenericApology

\* the classification of the request is of a conversational intent
ConversationalRequest ==
    /\ Responded
    /\ last.classification # None
    /\ last.classification[1].intent \in CONVERSATIONAL_INTENTS

\* C5: for every conversational intent and every confidence in [0, 1], 0
\* included, the router returns conversational, and the response that
\* generate_response returns has mode conversational.
C5_ConversationalWhateverConfidence ==
    /\ \A intent \in CONVERSATIONAL_INTENTS, confidence \in RouterScores :
           _determine_mode(intent, confidence) = "conversational"
    /\ ConversationalRequest =>
           /\ last.mode = Some("conversational")
           /\ ~last.out.raised
           /\ last.out.value.mode = "conversational"
           /\ last.out.value.intent = last.classification[1].intent

\* a conversational intent classified with confidence 0
C5_Witness ==
    /\ ConversationalRequest
    /\ last.classification[1].confidence = 0
    /\ last.out.value.mode = "conversational"

\* the keyword scorer's scores of every text of the model, row by row
keyword_scores == [t \in CleanedTexts |-> intent_scores(t)]

\* the keyword scorer's scores of the request's text
RequestScores == keyword_scores[preprocessed[last.question]]

\* the rows of the keyword table the text matches
MatchedRows == {i \in DOMAIN RequestScores : RequestScores[i] > 0}

\* the classifier was called and raised or returned no scores, and the text
\* matches keywords of exactly one intent, a knowledge intent
KeywordOnlyKnowledge ==
    /\ Responded
    /\ last.generator.is_loaded
    /\ Len(last.calls) = 2
    /\ (last.cls.kind = "raise" \/ Len(last.cls.results) = 0)
    /\ Cardinality(MatchedRows) = 1
    /\ \A i \in MatchedRows : INTENT_KEYWORDS[i].intent \in KNOWLEDGE_INTENTS

MatchedScore == RequestScores[CHOOSE i \in MatchedRows : TRUE]

\* C10: when the classifier is unavailable and the text matches keywords of
\* exactly one knowledge intent, the classification is the keyword result
\* for that intent, its confidence is the scorer's score raised by a tenth
\* and capped at 0.9 (0.6 is reported as 0.66), and the request is routed
\* to knowledge mode exactly when that confidence is above 0.3, so whenever
\* the score is above 0.3.
C10_ConfidenceIsScaledScore ==
    KeywordOnlyKnowledge =>
        /\ last.classification # None
        /\ last.classification[1].source = "keyword_matching"
        /\ \A i \in MatchedRows :
               last.classification[1].intent = INTENT_KEYWORDS[i].intent
        /\ last.classification[1].confidence =
               Min((MatchedScore * 11) \div 10, Frac(9, 10))
        /\ (last.mode = Some("knowledge")) <=>
               (last.classification[1].confidence > qa_confidence_threshold)
        /\ MatchedScore > Frac(3, 10) => last.mode = Some("knowledge")

\* a score of 0.6 reported as 0.66 and routed to knowledge mode
C10_Witness ==
    /\ KeywordOnlyKnowledge
    /\ MatchedScore = Frac(6, 10)
    /\ last.classification[1].confidence = Frac(66, 100)
    /\ last.mode = Some("knowledge")

\* C10 as stated: the confidence is the score unchanged
C10_ConfidenceIsScore ==
    KeywordOnlyKnowledge =>
        /\ last.classification # None
        /\ last.classification[1].confidence = MatchedScore
        /\ MatchedScore > Frac(3, 10) => last.mode = Some("knowledge")

(***************************************************************************)
(* Claims on the empty text.                                               *)
(***************************************************************************)
\* a loaded handler classified the empty text
EmptyTextClassified ==
    /\ last.op = "classify_intent"
    /\ is_loaded
    /\ last.text = ""

\* C11: the empty text is classified unknown with confidence 0.1, is routed
\* to fallback mode, and neither pipeline of the handler is called for it
C11_EmptyTextUnknownWithoutCalls ==
    EmptyTextClassified =>
        /\ ~last.out.raised
        /\ last.out.value.intent = "unknown"
        /\ last.out.value.confidence = Frac(1, 10)
        /\ _determine_mode(last.out.value.intent, last.out.value.confidence)
               = "fallback"
        /\ last.calls = <<>>

\* what the code does with the empty text: qa_pipeline is always called,
\* and below 0.3 intent_classifier too; when both fail the result is the
\* keyword result, unknown with confidence 0
C11_EmptyTextAsCoded ==
    EmptyTextClassified =>
        /\ ~last.out.raised
        /\ Len(last.calls) >= 1
        /\ last.calls[1] = "qa_pipeline"
        /\ (last.qa.kind = "raise" /\ ClassifierFailed) =>
               /\ last.calls = <<"qa_pipeline", "intent_classifier">>
               /\ last.out.value.intent = "unknown"
               /\ last.out.value.confidence = 0
               /\ last.out.value.source = "keyword_matching"

(***************************************************************************)
(* Claims on the knowledge step.                                           *)
(***************************************************************************)
\* a knowledge request answered by a loaded extractor on an empty cache:
\* each extraction calls the pipeline, so outcomes[1] is what the pipeline
\* did on the primary context and the next ones what it did on the related
\* contexts, in their order
KnowledgeAnswered ==
    /\ last.op = "_generate_knowledge_response"
    /\ qa_is_loaded

\* the extraction with this outcome yields a result
Yields(outcome) == outcome.kind = "ok" /\ outcome.score >= Frac(1, 10)

AboveThreshold(outcome) ==
    Yields(outcome) /\ Min(outcome.score, One) > qa_confidence_threshold

\* the outcomes on the related contexts that were searched
RelatedOutcomes == SubSeq(last.outcomes, 2, 1 + last.searched)

\* the first of the related outcomes of the highest confidence
BestRelated ==
    CHOOSE i \in DOMAIN RelatedOutcomes :
        /\ Yields(RelatedOutcomes[i])
        /\ \A j \in DOMAIN RelatedOutcomes :
               Yields(RelatedOutcomes[j]) =>
                   /\ RelatedOutcomes[j].score <= RelatedOutcomes[i].score
                   /\ j < i => RelatedOutcomes[j].score < RelatedOutcomes[i].score

\* the primary context yields nothing above the threshold and a related
\* context does
RelatedContextAnswers ==
    /\ KnowledgeAnswered
    /\ ~AboveThreshold(last.outcomes[1])
    /\ \E i \in DOMAIN RelatedOutcomes : AboveThreshold(RelatedOutcomes[i])

\* C12: when the primary context yields no result above the threshold and
\* one of the up to three related contexts does, the response is the answer
\* of the related result of the highest confidence (the first of them in
\* the order of the contexts when several share it), with source
\* qa_extraction and metadata.context_used "related_contexts"
C12_BestRelatedResultAnswers ==
    RelatedContextAnswers =>
        /\ last.searched <= 3
        /\ ~last.out.raised
        /\ last.out.value # None
        /\ last.out.value[1].message = Strip(RelatedOutcomes[BestRelated].answer)
        /\ last.out.value[1].mode = "knowledge"
        /\ last.out.value[1].source = "qa_extraction"
        /\ last.out.value[1].metadata.context_used = "related_contexts"
        /\ last.out.value[1].metadata.qa_confidence = RelatedOutcomes[BestRelated].score
        /\ last.out.value[1].metadata.contexts_searched = last.searched

\* the primary context yields 0.2, the first related context 0.2 and a later
\* one 0.5, whose answer is the response
C12_Witness ==
    /\ RelatedContextAnswers
    /\ last.searched = 3
    /\ last.outcomes[1] = QAOutput("low", Frac(2, 10))
    /\ last.outcomes[2] = QAOutput("low", Frac(2, 10))
    /\ last.outcomes[3] = QAOutput(" half ", Frac(1, 2))
    /\ last.outcomes[4] = QAOutput("edge", Frac(3, 10))
    /\ last.out.value[1].message = "half"
    /\ last.out.value[1].metadata.context_used = "related_contexts"

(***************************************************************************)
(* Claims on batch_classify.                                               *)
(***************************************************************************)
\* batch_classify of a loaded handler came to its end
BatchReturned ==
    /\ last.op = "batch_classify"
    /\ is_loaded

\* what classify_intent alone gives for the text at index i of the batch
ClassifiedAlone(i) ==
    Classify(TRUE, last.items[i].text, last.items[i].qa, last.items[i].cls)

\* C13: batch_classify returns a list as long as its input, and the result
\* at index i is the result of the text at index i, in whatever order the
\* tasks completed
C13_ResultsInInputOrder ==
    BatchReturned =>
        /\ ~last.out.raised
        /\ Len(last.out.value) = Len(last.items)
        /\ \A i \in 1..Len(last.items) :
               last.out.value[i] = ClassifiedAlone(i).value

\* two texts with different results, the second task done before the first
C13_Witness ==
    /\ BatchReturned
    /\ last.order = <<2, 1>>
    /\ ~last.out.raised
    /\ last.out.value[1].intent = "conversational_greeting"
    /\ last.out.value[2].intent = "billing_support"

\* both pipelines raised on the text at index i
ProcessingFailed(i) ==
    /\ last.items[i].qa.kind = "raise"
    /\ last.items[i].cls.kind = "raise"

\* C14 as stated: the slot of a text whose processing failed holds the
\* fallback-error result, and nothing is raised
C14_FailedSlotHoldsFallbackError ==
    BatchReturned =>
        /\ ~last.out.raised
        /\ \A i \in 1..Len(last.items) :
               ProcessingFailed(i) =>
                   /\ last.out.value[i].intent = "unknown"
                   /\ last.out.value[i].source = "fallback_error"

\* C14: the slot of a text on which both pipelines raised holds the keyword
\* result of that text, no slot holds a fallback-error result, the slots of
\* the other texts hold what they hold without the failure, and nothing is
\* raised
C14_FailedSlotHoldsKeywordResult ==
    BatchReturned =>
        /\ ~last.out.raised
        /\ \A i \in 1..Len(last.items) :
               /\ last.out.value[i].source # "fallback_error"
               /\ ProcessingFailed(i) =>
                      /\ last.out.value[i].source = "keyword_matching"
                      /\ last.out.value[i].intent =
                             keyword_classification[
                                 preprocessed[last.items[i].text]].intent
                      /\ last.out.value[i].confidence =
                             keyword_classification[
                                 preprocessed[last.items[i].text]].confidence
               /\ ~ProcessingFailed(i) =>
                      last.out.value[i] = ClassifiedAlone(i).value

\* both pipelines raised on the first text of two and not on the second
C14_Witness ==
    /\ BatchReturned
    /\ Len(last.items) = 2
    /\ ProcessingFailed(1)
    /\ last.items[2].qa.kind # "raise"
    /\ ~last.out.raised
    /\ last.out.value[1].source = "keyword_matching"
    /\ last.out.value[2].source = "distilbert_qa"

(***************************************************************************)
(* Claims on concurrent requests on a cache.                               *)
(***************************************************************************)
\* request r is inside a method of the cache
InsideCache(r) == call.frames[r].pc # "idle"

\* request r has run a method of the cache to its end and not yet returned
MethodDone(r) == call.frames[r].pc = "done"

\* the cache and the result of request r are those of its whole method
\* applied, at the time the request entered it, to the cache it found
AsOneStep(r) ==
    LET QAAsOneStep(frame) ==
            IF frame.op = "set"
            THEN QACacheValue = QACache_set(frame.before[1], frame.arg[1][1],
                                            frame.arg[1][2], "29", None, frame.t)
            ELSE LET Same(got) ==
                         /\ qa_cache = got.cache
                         /\ qa_hits = got.hits
                         /\ qa_misses = got.misses
                         /\ frame.result = got.result
                 IN  Same(QACache_get(frame.before[1], frame.arg[1][1],
                                      frame.arg[1][2], frame.t))
        SCAsOneStep(frame) ==
            IF frame.op = "set"
            THEN SimpleCacheValue = SimpleCache_set(frame.before[1], frame.arg[1],
                                                    "billing_support", frame.t)
            ELSE /\ SimpleCacheValue = frame.before[1]
                 /\ frame.result = SimpleCache_get(frame.before[1], frame.arg[1],
                                                   frame.t)
    IN  IF call.cache = "QACache" THEN QAAsOneStep(call.frames[r])
        ELSE SCAsOneStep(call.frames[r])

\* C15: with several requests on one cache, no two requests are inside a
\* method of the cache at once, the cache never holds more than max_size
\* entries, no method raises, and every get and set leaves the cache as the
\* whole method leaves it when it runs alone: no eviction is lost
C15_MethodsRunExclusively ==
    call.op = "requests" =>
        /\ Len(qa_cache) <= max_size
        /\ Len(sc_cache) <= max_size
        /\ Len(sc_timestamps) <= max_size
        /\ \A r, s \in Requests : r # s => ~(InsideCache(r) /\ InsideCache(s))
        /\ \A r \in Requests :
               MethodDone(r) => ~call.frames[r].failed /\ AsOneStep(r)

\* after a request of another client, a request has set a new key on a
\* full cache, which evicted an entry
C15_Witness ==
    /\ call.op = "requests"
    /\ last.op = "set"
    /\ last.request = 1
    /\ MethodDone(2)
    /\ call.frames[2].op = "set"
    /\ call.frames[2].oldest_key # None
    /\ Len(call.frames[2].before[1].cache) = max_size
    /\ ~call.frames[2].failed

(***************************************************************************)
(* Claims on the calls to the pipelines.                                   *)
(***************************************************************************)
\* the request waits in a call to a pipeline that never ends
WaitsForever ==
    \/ /\ call.op = "classify_intent"
       /\ \/ call.pc = "qa_pipeline" /\ call.qa.kind = "never"
          \/ call.pc = "intent_classifier" /\ call.cls.kind = "never"
    \/ /\ call.op = "extract_answer"
       /\ call.pc = "qa_pipeline"
       /\ call.outcome.kind = "never"

\* the request got its result
Answered == last.op \in {"classify_intent", "extract_answer"}

\* C16: every request eventually gets its result, also when a call to a
\* pipeline never returns
C16_EveryRequestAnswered == <>Answered

\* what the code gives: a request gets its result unless it waits in a
\* call that never ends, and then it waits for ever
C16_AnsweredUnlessCallNeverEnds ==
    /\ <>(Answered \/ WaitsForever)
    /\ [](WaitsForever => [](WaitsForever /\ ~Answered))

(***************************************************************************)
(* Claims on eviction.                                                     *)
(***************************************************************************)
\* the n keys written last among written[1..i], added to acc, or all the
\* keys written when they are fewer
RECURSIVE MostRecentKeys(_, _, _, _)
MostRecentKeys(written, i, acc, n) ==
    IF i = 0 \/ Cardinality(acc) = n THEN acc
    ELSE MostRecentKeys(written, i - 1, acc \cup {written[i]}, n)

KeysOf(items) == {items[i].key : i \in DOMAIN items}

StoredKeys == IF call.cache = "QACache" THEN KeysOf(qa_cache) ELSE KeysOf(sc_cache)

\* writes alone, none of which found an entry expired
WritesWithoutExpiry == call.op = "writes" /\ ~call.expired

\* C17: with no entry expiring, after more than max_size sets the cache
\* holds exactly the max_size most recently written keys, and a set on a
\* full cache removes the entry with the oldest timestamp and no other
C17_HoldsMostRecentlyWrittenKeys ==
    WritesWithoutExpiry =>
        /\ Len(call.written) > max_size =>
               StoredKeys = MostRecentKeys(call.written, Len(call.written), {},
                                           max_size)
        /\ (last.op = "set" /\ last.full) =>
               StoredKeys = (KeysOf(last.before) \ {OldestKey(last.before)})
                                \cup {last.key}

\* what the code gives: a set on a full cache removes the oldest entry also
\* when its own key is stored, a set on a cache that is not full removes
\* none, and the cache holds the max_size most recently written keys as long
\* as no key was written twice
C17_EvictsOldestAlsoOnOverwrite ==
    (WritesWithoutExpiry /\ last.op = "set") =>
        /\ StoredKeys = (IF last.full
                         THEN KeysOf(last.before) \ {OldestKey(last.before)}
                         ELSE KeysOf(last.before)) \cup {last.key}
        /\ (/\ Len(call.written) > max_size
            /\ Cardinality({call.written[i] : i \in DOMAIN call.written})
                   = Len(call.written)) =>
               StoredKeys = MostRecentKeys(call.written, Len(call.written), {},
                                           max_size)

\* a key written again on a full cache: the oldest entry, of another key,
\* is gone and the cache is no longer full
C17_OverwriteEvicts ==
    /\ WritesWithoutExpiry
    /\ last.op = "set"
    /\ last.full
    /\ last.key \in KeysOf(last.before)
    /\ OldestKey(last.before) # last.key
    /\ Cardinality(StoredKeys) < max_size

(***************************************************************************)
(* Claims on the write gates.                                              *)
(***************************************************************************)
\* /classify computed a result, which it returned
ClassifiedByEndpoint ==
    /\ last.op = "classify"
    /\ ~last.cached
    /\ ~last.out.raised

\* extract_answer got a result from qa_pipeline, which it returned
ExtractedByPipeline ==
    /\ last.op = "extract_answer"
    /\ last.called
    /\ ~last.out.raised
    /\ last.out.value # None

\* C18: every entry of the Classification Cache has a confidence above 0.5
\* and every entry of the Answer Cache one above 0.3; a result at or below
\* its gate is returned and leaves its cache without an entry for it
C18_WritesAreGated ==
    call.op = "writers" =>
        /\ \A i \in DOMAIN sc_cache : sc_cache[i].result.confidence > Frac(1, 2)
        /\ \A i \in DOMAIN qa_cache :
               /\ qa_cache[i].result.confidence > Frac(3, 10)
               /\ qa_cache[i].result.model_confidence > Frac(3, 10)
        /\ (ClassifiedByEndpoint /\ last.out.value.confidence <= Frac(1, 2)) =>
               SimpleCacheValue = last.before
        /\ (ClassifiedByEndpoint /\ last.out.value.source = "fallback_error") =>
               SimpleCacheValue = last.before
        /\ (ExtractedByPipeline
                /\ last.out.value[1].model_confidence <= Frac(3, 10)) =>
               ~HasKey(qa_cache, _generate_key(last.question, last.context))

\* a result of confidence exactly 0.5 was returned by /classify and not
\* stored, next to an entry written before
C18_Witness ==
    /\ call.op = "writers"
    /\ ClassifiedByEndpoint
    /\ last.out.value.confidence = Frac(1, 2)
    /\ Len(sc_cache) = 1
    /\ ~HasKey(sc_cache, _get_cache_key(last.text))

(***************************************************************************)
(* Claims on expiry and on the statistics.                                 *)
(***************************************************************************)
\* the last call was a get of a stored entry older than its time-to-live
GotExpired == GotStored /\ last.age > last.ttl

\* the key of the last call is stored in the cache the call was made on
StillStored ==
    IF last.cache = "QACache" THEN HasKey(qa_cache, last.key)
    ELSE HasKey(sc_cache, last.key) \/ HasKey(sc_timestamps, last.key)

\* C19: in both caches a get that finds an entry older than its
\* time-to-live returns a miss and removes the entry
C19_ExpiredGetRemoves ==
    GotExpired => last.result = None /\ ~StillStored

\* what the code does: both caches return a miss; QACache.get deletes the
\* entry, SimpleCache.get leaves it in both of its dicts
C19_OnlyAnswerCacheRemoves ==
    GotExpired =>
        /\ last.result = None
        /\ IF last.cache = "QACache" THEN ~HasKey(qa_cache, last.key)
           ELSE HasKey(sc_cache, last.key) /\ HasKey(sc_timestamps, last.key)

\* stats() was read and nothing was called since
StatsRead == last.op = "stats"

StoredEntries == IF last.cache = "QACache" THEN Len(qa_cache) ELSE Len(sc_cache)

\* C20: stats() of either cache reports hits, misses and size: the gets
\* since the last clear that returned a value, those that returned none,
\* and the number of entries stored
C20_StatsCountGets ==
    StatsRead =>
        /\ {"hits", "misses", "size"} \subseteq DOMAIN last.stats
        /\ last.stats.hits = call.returned
        /\ last.stats.misses = call.missed
        /\ last.stats.size = StoredEntries

\* what the code gives: QACache.stats reports the three as claimed;
\* SimpleCache.stats reports the size, no hits and no misses, and a
\* hit_rate that is 0 whatever the gets returned
C20_OnlyAnswerCacheCounts ==
    StatsRead =>
        /\ last.stats.size = StoredEntries
        /\ IF last.cache = "QACache"
           THEN /\ last.stats.hits = call.returned
                /\ last.stats.misses = call.missed
           ELSE /\ DOMAIN last.stats
                       = {"size", "max_size", "ttl_seconds", "hit_rate"}
                /\ last.stats.hit_rate = 0

\* stats() of the Classification Cache after a get that returned a value
C20_HitNotCounted ==
    /\ StatsRead
    /\ last.cache = "SimpleCache"
    /\ call.returned > 0

(***************************************************************************)
(* Claims on the composition of the response.                              *)
(***************************************************************************)
\* the router chose knowledge mode and the response is not a knowledge
\* answer
KnowledgeGaveNoAnswer ==
    /\ Responded
    /\ last.mode = Some("knowledge")
    /\ ~last.out.raised
    /\ last.out.value.mode # "knowledge"

\* C21: when the router chose knowledge mode and the knowledge step gave no
\* answer, the response is a fallback one, its intent being in no way
\* conversational; a conversational response is given to conversational
\* intents only, the two sets of intents share no intent, and every
\* response has one of the three modes
C21_NoAnswerEndsInFallback ==
    /\ KNOWLEDGE_INTENTS \cap CONVERSATIONAL_INTENTS = {}
    /\ Responded =>
           /\ ~last.out.raised
           /\ last.out.value.mode \in {"knowledge", "conversational", "fallback"}
           /\ last.out.value.mode = "conversational" =>
                  last.out.value.intent \in CONVERSATIONAL_INTENTS
           /\ KnowledgeGaveNoAnswer =>
                  /\ last.out.value.mode = "fallback"
                  /\ last.classification[1].intent \notin CONVERSATIONAL_INTENTS

\* routed to knowledge mode with every pipeline of the extractor called and
\* none above the threshold, the request is answered by a fallback message
C21_Witness ==
    /\ KnowledgeGaveNoAnswer
    /\ last.generator.kb_loaded
    /\ last.generator.qa_is_loaded
    /\ last.called > 0
    /\ last.out.value.source = "fallback"

\* the request was routed to knowledge mode and the knowledge base, not
\* loaded or without the intent, holds no context for it
RoutedWithoutContext ==
    /\ Responded
    /\ last.mode = Some("knowledge")
    /\ \/ ~KnowledgeBaseSeen.loaded
       \/ ~HasKey(KnowledgeBaseSeen.knowledge, last.classification[1].intent)
       \/ ItemOf(KnowledgeBaseSeen.knowledge,
                 last.classification[1].intent).context = ""

\* C22: a request routed to knowledge mode for which the knowledge base
\* holds no context, loaded or not, is answered in fallback mode, raises
\* nothing, and the extractor is not called for it
C22_NoContextEndsInFallback ==
    RoutedWithoutContext =>
        /\ ~last.out.raised
        /\ last.out.value.mode = "fallback"
        /\ last.out.value.source = "fallback"
        /\ last.out.value.intent = last.classification[1].intent
        /\ last.called = 0

\* the knowledge base failed to load and the extractor's model is loaded
C22_Witness ==
    /\ RoutedWithoutContext
    /\ ~last.generator.kb_loaded
    /\ last.generator.qa_is_loaded
    /\ last.out.value.mode = "fallback"

(***************************************************************************)
(* Claims on the related contexts.                                         *)
(***************************************************************************)
Searched == last.op = "search_related_contexts"

\* the category the store gives for the intent asked, "" when it has none
CategoryAsked ==
    IF kb_loaded /\ HasKey(last.knowledge, last.intent)
    THEN ItemOf(last.knowledge, last.intent).category
    ELSE ""

\* the positions, in load order, of the other records of that category
SharingCategory ==
    {i \in DOMAIN last.knowledge :
        /\ CategoryAsked # ""
        /\ last.knowledge[i].key # last.intent
        /\ last.knowledge[i].category = CategoryAsked}

\* those of them that have a text
SharingWithText == {i \in SharingCategory : last.knowledge[i].context # ""}

\* out lists the records at the first limit positions of S, in load order
ListsFirstOf(S) ==
    /\ Len(last.out) = Min(last.limit, Cardinality(S))
    /\ \A n \in DOMAIN last.out :
          \E i \in S :
             /\ Cardinality({j \in S : j < i}) = n - 1
             /\ last.out[n] = [key |-> last.knowledge[i].key,
                               context |-> last.knowledge[i].context]

\* C23 as stated: search_related_contexts returns exactly the other
\* records of the intent's category, in load order, cut to limit
C23_ReturnsRecordsOfCategory == Searched => ListsFirstOf(SharingCategory)

\* C23: search_related_contexts returns the other records of the intent's
\* category that have a non-empty text, in load order, cut to the first
\* limit of them, never the intent's own record; it returns the empty list
\* when the intent has no category or the store is not loaded
C23_ReturnsRecordsWithText ==
    Searched =>
        /\ ListsFirstOf(SharingWithText)
        /\ \A n \in DOMAIN last.out : last.out[n].key # last.intent
        /\ CategoryAsked = "" => last.out = <<>>
        /\ ~kb_loaded => last.out = <<>>

\* three records share the category, one of them without a text, and the
\* limit cuts the two that are left to one
C23_Witness ==
    /\ Searched
    /\ Cardinality(SharingCategory) = 3
    /\ Cardinality(SharingWithText) = 2
    /\ last.limit = 1
    /\ Len(last.out) = 1

(***************************************************************************)
(* Claims on the keyword scores.                                           *)
(***************************************************************************)
Scored == last.op = "intent_scores"

KeywordsScored == INTENT_KEYWORDS[last.row].keywords

\* the keywords of the row occurring in the text, letter case ignored
Occurring ==
    {j \in DOMAIN KeywordsScored : Contains(Lower(last.text), KeywordsScored[j])}

\* kw stands in s at position i with no word character next to it
WholeWordAt(s, kw, i) ==
    /\ MatchesAt(s, kw, i)
    /\ i > 1 => CharAt(s, i - 1) \notin WordChars
    /\ i + Len(kw) <= Len(s) => CharAt(s, i + Len(kw)) \notin WordChars

\* the keywords occurring as a whole word, delimited by word boundaries or
\* by the start or the end of the text
OccurringAsWord ==
    {j \in Occurring :
        \E i \in 1..Len(last.text) :
            WholeWordAt(Lower(last.text), KeywordsScored[j], i)}

\* the keywords occurring between spaces or the ends of the text, or at
\* the very start or the very end of the text whatever follows or precedes
OccurringAsCounted ==
    {j \in Occurring :
        \/ \E i \in 1..Len(last.text) :
              /\ MatchesAt(Lower(last.text), KeywordsScored[j], i)
              /\ i > 1 => CharAt(last.text, i - 1) = " "
              /\ i + Len(KeywordsScored[j]) <= Len(last.text)
                    => CharAt(last.text, i + Len(KeywordsScored[j])) = " "
        \/ MatchesAt(Lower(last.text), KeywordsScored[j], 1)
        \/ MatchesAt(Lower(last.text), KeywordsScored[j],
                     Len(last.text) - Len(KeywordsScored[j]) + 1)}

ScoreOf(m, w) ==
    IF m = 0 THEN 0
    ELSE Min((m * One) \div Len(KeywordsScored) + w * ((15 * One) \div 100), One)

\* C24: the score of a text for an intent is min(m / k + 0.15 w, 1.0), m
\* the keywords occurring in the text and w those of them occurring as a
\* whole word; it is 0.0 when m = 0 and for the empty text
C24_ScoreCountsWholeWords ==
    Scored =>
        /\ last.out = ScoreOf(Cardinality(Occurring), Cardinality(OccurringAsWord))
        /\ last.text = "" => last.out = 0

\* the score as computed: the bonus goes to a keyword between spaces and to
\* one the text starts or ends with; no match and the empty text score 0.0
C24_ScoreCountsSpacedOrEdgeMatches ==
    Scored =>
        /\ last.out = ScoreOf(Cardinality(Occurring), Cardinality(OccurringAsCounted))
        /\ Cardinality(Occurring) = 0 => last.out = 0
        /\ last.text = "" => last.out = 0
        /\ last.out <= One

\* a bonus given to a keyword that is only the beginning of a longer word
C24_BonusWithoutWholeWord ==
    /\ Scored
    /\ OccurringAsCounted \ OccurringAsWord # {}

\* no bonus for a whole word followed by a question mark
C24_WholeWordWithoutBonus ==
    /\ Scored
    /\ OccurringAsWord \ OccurringAsCounted # {}

BrevityHint ==
    "Your question seems quite brief. Could you provide more details about what you're looking for?"

QuestionMarkHint ==
    "I notice your message doesn't contain a question mark. Are you asking a question or making a statement?"

Apologies ==
    {"I'm not entirely sure about that. Could you please rephrase your question or provide more details?",
     "I didn't quite understand your question. Could you try asking it differently?",
     "I'm still learning about that topic. Can you be more specific about what you'd like to know?",
     "That's an interesting question, but I'm not confident in my answer. Could you provide more context?",
     "I want to make sure I give you accurate information. Could you clarify what you're looking for?"}

\* the response was composed by _generate_fallback_response
FallbackComposed ==
    /\ Responded
    /\ ~last.out.raised
    /\ last.out.value.mode = "fallback"
    /\ last.out.value.source = "fallback"

\* C25: a fallback message carries the brevity hint when the input has
\* fewer than 3 words, the question-mark hint when the input has no
\* question mark, and one of the apology strings besides
C25_FallbackCarriesHints ==
    FallbackComposed =>
        /\ WordCount(last.question) < 3
              => Contains(last.out.value.message, BrevityHint)
        /\ ~Contains(last.question, "?")
              => Contains(last.out.value.message, QuestionMarkHint)
        /\ \E apology \in Apologies : Contains(last.out.value.message, apology)

\* the message as composed: one string alone, an apology or a hint, a hint
\* only when its condition holds
C25_FallbackIsOneString ==
    FallbackComposed =>
        /\ last.out.value.message \in Apologies \cup {BrevityHint, QuestionMarkHint}
        /\ last.out.value.message = BrevityHint => WordCount(last.question) < 3
        /\ last.out.value.message = QuestionMarkHint => ~Contains(last.question, "?")

\* a short input without question mark answered by an apology alone
C25_HintsLeftOut ==
    /\ FallbackComposed
    /\ WordCount(last.question) < 3
    /\ ~Contains(last.question, "?")
    /\ last.out.value.message \in Apologies

(***************************************************************************)
(* Claims on the keys of the Classification Cache.                         *)
(***************************************************************************)
\* a text with the surrounding whitespace trimmed and the case folded
Normalized(text) == Lower(Strip(text))

normalized == [text \in KeyTexts |-> Normalized(text)]

\* what get would return for each text in this state, and in the next
Got == [text \in KeyTexts |-> SimpleCache_get(SimpleCacheValue, text, now)]

GotNext ==
    [text \in KeyTexts |->
        SimpleCache_get([cache |-> sc_cache', timestamps |-> sc_timestamps'],
                        text, now')]

\* a step that is a set on the Classification Cache
SetStep ==
    /\ last'.op = "set"
    /\ <<sc_cache', sc_timestamps', last'>> # <<sc_cache, sc_timestamps, last>>

\* the entry of the text is stored and older than ttl_seconds
Outlived(text) ==
    \E i \in DOMAIN sc_timestamps' :
        /\ normalized[text] = sc_timestamps'[i].key
        /\ now' - sc_timestamps'[i].timestamp > ttl_seconds

NormalizedTextsShareEntry ==
    LET Shares(got, got_next) ==
            /\ SetStep =>
                  \A text \in KeyTexts :
                     IF normalized[text] = normalized[last'.text]
                     THEN got_next[text] = Some(last'.result)
                     ELSE got_next[text] \in {got[text], None}
            /\ ~SetStep =>
                  \A text \in KeyTexts :
                     /\ got_next[text] \in {got[text], None}
                     /\ got_next[text] # got[text]
                           => last'.op = "clear" \/ Outlived(text)
            /\ \A t1, t2 \in KeyTexts :
                  normalized[t1] = normalized[t2] => got_next[t1] = got_next[t2]
    IN  Shares(Got, GotNext)

\* C26: after set(t, r) on the Classification Cache get(t') returns r for
\* every t' equal to t after trimming and case-folding, until the entry
\* expires, is evicted or is cleared; a set under a text that differs after
\* that normalization leaves what get returns for t' or evicts its entry,
\* it never replaces it
C26_NormalizedTextsShareEntry == [][NormalizedTextsShareEntry]_vars

\* ' Hello ' reads the entry written under 'hello', next to another entry
C26_Witness ==
    /\ last.op = "set"
    /\ last.text = "hello"
    /\ Got[" Hello "] = Some(last.result)
    /\ Got["starter"] # None
    /\ Got["starter"] # Got[" Hello "]

(***************************************************************************)
(* Claims on the endpoints.                                                *)
(***************************************************************************)
\* the query entered through /chat and the Classification Cache held an
\* entry for its text that had not expired
ChatOnCachedText ==
    /\ last.op = "chat"
    /\ SimpleCache_get(last.before, last.text, last.at) # None

\* the query entered through /classify and the cache held such an entry
ClassifyOnCachedText ==
    /\ last.op = "classify"
    /\ call.cache = "SimpleCache"
    /\ last.cached

\* C27: every query, through /chat as through /classify, first looks up
\* the Classification Cache, and on a hit the keyword scorer and the
\* classifier are not invoked: the query is classified as the entry says
C27_EveryQueryLooksUpCache ==
    /\ ClassifyOnCachedText =>
          last.out = Return(ItemOf(last.before.cache,
                                   _get_cache_key(last.text)).result)
    /\ ChatOnCachedText =>
          /\ last.calls = <<>>
          /\ last.classification =
                 Some(ItemOf(last.before.cache, _get_cache_key(last.text)).result)

\* the lookup as coded: /classify returns the entry it finds, /chat
\* classifies every query anew and neither reads nor writes the cache
C27_OnlyClassifyLooksUpCache ==
    /\ ClassifyOnCachedText =>
          /\ last.out = Return(ItemOf(last.before.cache,
                                      _get_cache_key(last.text)).result)
          /\ SimpleCacheValue = last.before
    /\ last.op = "chat" =>
          /\ SimpleCacheValue = last.before
          /\ last.calls # <<>>
          /\ last.classification # None

\* /chat calling both pipelines for a text the cache holds
C27_ChatIgnoresEntry ==
    /\ ChatOnCachedText
    /\ last.calls = <<"qa_pipeline", "intent_classifier">>

\* the response was produced in the mode
ProducedIn(mode) ==
    /\ Responded
    /\ ~last.out.raised
    /\ last.out.value.mode = mode

\* C28: every response produced in conversational mode carries the source
\* template_response, and every response produced in knowledge mode the
\* source qa_extraction
C28_SourceNamesTheMode ==
    /\ ProducedIn("conversational") => last.out.value.source = "template_response"
    /\ ProducedIn("knowledge") => last.out.value.source = "qa_extraction"

\* the sources as coded: template for conversational mode, qa_extraction
\* for knowledge mode
C28_ConversationalSourceIsTemplate ==
    /\ ProducedIn("conversational") => last.out.value.source = "template"
    /\ ProducedIn("knowledge") => last.out.value.source = "qa_extraction"

\* a greeting answered from a template
C28_GreetingFromTemplate ==
    /\ ProducedIn("conversational")
    /\ last.question = "hello"
    /\ last.out.value.intent = "conversational_greeting"

\* the message of the request matches no keyword of any intent
MatchesNoKeyword ==
    /\ Responded
    /\ last.generator.is_loaded
    /\ \A i \in DOMAIN INTENT_KEYWORDS :
          Matches(INTENT_KEYWORDS[i].keywords, Lower(preprocessed[last.question])) = {}

\* C29: a message that matches no keyword of any intent is answered with
\* intent unknown in fallback mode, whatever the classifier returns
C29_NoKeywordIsUnknownFallback ==
    MatchesNoKeyword =>
        /\ ~last.out.raised
        /\ last.out.value.intent = "unknown"
        /\ last.out.value.mode = "fallback"

\* what holds for such a message: it is answered with intent unknown in
\* fallback mode when both pipelines raise or the classifier returns no
\* result; a result of the classifier decides the intent, and the mode
C29_UnknownWithoutClassifierResult ==
    /\ MatchesNoKeyword /\ last.qa = PipelineRaises
          /\ last.cls \in {PipelineRaises, ClassifierOutput(<<>>)}
       => /\ last.out.value.intent = "unknown"
          /\ last.out.value.mode = "fallback"
    /\ MatchesNoKeyword /\ last.qa = PipelineRaises
          /\ last.cls \notin {PipelineRaises, ClassifierOutput(<<>>)}
       => last.classification[1].source = "neural_classification"

\* a message without keyword answered in knowledge mode on the
\* classifier's label
C29_ClassifierDecides ==
    /\ MatchesNoKeyword
    /\ last.classification[1].source = "neural_classification"
    /\ last.out.value.mode = "knowledge"

\* no keyword of any intent occurs in the text classified, and the
\* classifier, asked, raised or returned no scores
NoKeywordNoScores ==
    /\ Classified
    /\ ClassifierFailed
    /\ \A i \in DOMAIN INTENT_KEYWORDS :
          Matches(INTENT_KEYWORDS[i].keywords, Lower(preprocessed[last.text])) = {}

\* C30: when no keyword matches and the classifier made no attempt, the
\* result is intent unknown with the floor confidence 0.1, never 0.0
C30_UnknownHasFloorConfidence ==
    NoKeywordNoScores =>
        /\ last.out.value.intent = "unknown"
        /\ last.out.value.confidence = Frac(1, 10)

\* the result as computed: the keyword result, unknown with confidence 0.0
C30_UnknownHasZeroConfidence ==
    NoKeywordNoScores =>
        /\ last.out.value.intent = "unknown"
        /\ last.out.value.confidence = 0
        /\ last.out.value.source = "keyword_matching"

\* 'zzzz' classified while the classifier returns no scores
C30_NothingFound ==
    /\ NoKeywordNoScores
    /\ last.text = "zzzz"
    /\ last.cls = ClassifierOutput(<<>>)

(***************************************************************************)
(* Claims on the labels of the classifier.                                 *)
(***************************************************************************)
\* the label of the classifier's best result, when it was asked and
\* returned scores
BestLabel == BestResult(last.cls.results).label

\* the label is LABEL_i with i an index of settings.intent_labels
Configured(label) ==
    \E i \in 0..(Len(intent_labels) - 1) : label = "LABEL_" \o ToString(i)

\* the classifier was asked and its best label has no configured intent
UnmappedLabel ==
    /\ Classified
    /\ "intent_classifier" \in Range(last.calls)
    /\ ClassifierSucceeded
    /\ ~Configured(BestLabel)

\* C31: a label without a configured intent resolves to the intent
\* unknown, and resolving it raises no exception
C31_UnmappedLabelIsUnknown ==
    UnmappedLabel =>
        _map_label_to_intent(BestLabel, preprocessed[last.text]) = Return("unknown")

\* the resolution as coded: the lookup of the first campus intent in
\* INTENT_KEYWORDS raises KeyError, which the fusion catches; the result is
\* the keyword result
C31_UnmappedLabelRaisesKeyError ==
    UnmappedLabel =>
        /\ _map_label_to_intent(BestLabel, preprocessed[last.text]) = Raise("KeyError")
        /\ last.out.value = keyword_classification[preprocessed[last.text]]

\* 'starter' classified while the classifier answers POSITIVE: the result
\* is the keyword result, pricing_basic
C31_KeywordResultInstead ==
    /\ UnmappedLabel
    /\ BestLabel = "POSITIVE"
    /\ last.text = "starter"
    /\ last.out.value.intent = "pricing_basic"

(***************************************************************************)
(* Claims on ties of the keyword scores.                                   *)
(***************************************************************************)
KeywordClassified == last.op = "_keyword_classification"

\* the rows of the keyword table that hold the highest score of the text
TopRows ==
    {i \in DOMAIN last.scores : \A j \in DOMAIN last.scores :
                                    last.scores[j] <= last.scores[i]}

\* C32: when several intents tie for the highest keyword score the scorer
\* returns the one that comes first in the keyword table
C32_FirstOfTiedIntents ==
    KeywordClassified /\ (\E i \in TopRows : last.scores[i] > 0) =>
        \E i \in TopRows :
            /\ \A j \in TopRows : i <= j
            /\ last.out.intent = INTENT_KEYWORDS[i].intent

\* integration_guide and deployment_strategies tie on 'implementation'
C32_Witness ==
    /\ KeywordClassified
    /\ last.text = "implementation"
    /\ Cardinality(TopRows) = 2
    /\ \A i \in TopRows : last.scores[i] > 0
    /\ last.out.intent = "integration_guide"

\* the extraction on the primary context yields a result above the
\* threshold
PrimaryAnswers ==
    /\ KnowledgeAnswered
    /\ AboveThreshold(last.outcomes[1])

\* C33: the extractor runs on the primary context before any related one;
\* when the primary result is above the threshold no related context is
\* extracted and metadata.context_used names the intent, and a response
\* from the related contexts is given only after the primary one failed
C33_PrimaryContextFirst ==
    /\ PrimaryAnswers =>
          /\ last.called = 1
          /\ ~last.out.raised
          /\ last.out.value # None
          /\ last.out.value[1].message = Strip(last.outcomes[1].answer)
          /\ last.out.value[1].metadata.context_used = last.intent
          /\ last.out.value[1].metadata.qa_confidence = Min(last.outcomes[1].score, One)
          /\ Len(qa_cache) = 1
    /\ KnowledgeAnswered /\ ~last.out.raised /\ last.out.value # None
          /\ last.out.value[1].metadata.context_used = "related_contexts"
       => /\ ~AboveThreshold(last.outcomes[1])
          /\ last.called = 1 + last.searched

\* the primary context answers although a related context would score
\* higher
C33_Witness ==
    /\ PrimaryAnswers
    /\ last.intent = "pricing_basic"
    /\ last.outcomes[1] = QAOutput(" half ", Frac(1, 2))
    /\ last.outcomes[2] = QAOutput("sure", One)
    /\ last.out.value[1].message = "half"
    /\ last.out.value[1].metadata.context_used = "pricing_basic"

(***************************************************************************)
(* Claims on the keys of the Answer Cache.                                 *)
(***************************************************************************)
GotPair == last.op = "get" /\ "question" \in DOMAIN last /\ last.result # None

\* C34: get(q, c) never returns a result that was stored under another
\* (question, context) pair, whether or not the pair holds the separator
C34_GetReturnsOwnPair ==
    GotPair => last.result[1] = ResultFor(last.question, last.context)

\* the sharing as coded: get returns the result of a pair whose question
\* and context, joined by the separator, give the same string
C34_GetReturnsPairOfSameJoin ==
    GotPair =>
        last.result[1].question \o "||" \o last.result[1].context
            = last.question \o "||" \o last.context

\* a pair without separator reads its own result
C34_PlainPairReadsOwn ==
    /\ GotPair
    /\ last.question = "plan" /\ last.context = "basic"
    /\ last.result[1] = ResultFor("plan", "basic")

(***************************************************************************)
(* Claims on the threshold of extract_answer.                              *)
(***************************************************************************)
\* extract_answer returned a result
ResultReturned ==
    /\ last.op = "extract_answer"
    /\ "confidence_threshold" \in DOMAIN last
    /\ ~last.out.raised
    /\ last.out.value # None

\* C35: extract_answer never returns a result whose confidence is below
\* the confidence_threshold of the call, be it from the extractor or from
\* the Answer Cache
C35_ResultMeetsThreshold ==
    ResultReturned => last.out.value[1].confidence >= last.confidence_threshold

\* the threshold as applied: to what the extractor returns in this call;
\* a result read from the Answer Cache is only known to be above 0.3
C35_ThresholdOnExtractorOnly ==
    ResultReturned =>
        IF last.called
        THEN last.out.value[1].confidence >= last.confidence_threshold
        ELSE last.out.value[1].confidence > Frac(3, 10)

\* a stored result of confidence 0.5 returned to a call with threshold 0.8
C35_StoredResultBelowThreshold ==
    /\ ResultReturned
    /\ ~last.called
    /\ last.confidence_threshold = Frac(8, 10)
    /\ last.out.value[1].confidence = Frac(1, 2)

(***************************************************************************)
(* Claims on the overwriting set.                                          *)
(***************************************************************************)
\* the keys stored with their timestamps, in the order of the dict
StoredStamps ==
    IF call.cache = "QACache"
    THEN [i \in DOMAIN qa_cache |->
             [key |-> qa_cache[i].key, timestamp |-> qa_cache[i].timestamp]]
    ELSE sc_timestamps

\* the last operation was a set on a key that was stored, no entry having
\* expired
Overwritten ==
    /\ WritesWithoutExpiry
    /\ last.op = "set"
    /\ last.key \in KeysOf(last.before)

\* every entry of another key is stored as it was before the set
OthersUnchanged ==
    \A i \in DOMAIN last.before :
        last.before[i].key # last.key =>
            \E j \in DOMAIN StoredStamps : StoredStamps[j] = last.before[i]

\* C36: a set on a stored key replaces that key's entry and leaves every
\* other entry of the cache unchanged, also when the cache is at capacity
C36_OverwriteLeavesOthers ==
    Overwritten =>
        /\ last.key \in StoredKeys
        /\ OthersUnchanged

\* the overwrite as coded: the others are left alone below capacity; at
\* capacity the oldest entry is removed first, be it of another key
C36_OverwriteLeavesOthersBelowCapacity ==
    Overwritten =>
        /\ last.key \in StoredKeys
        /\ ~last.full => OthersUnchanged
        /\ last.full =>
              StoredKeys = (KeysOf(last.before) \ {OldestKey(last.before)})
                               \cup {last.key}

\* the newer of two stored keys set again: the older one is gone
C36_OverwriteRemovesOther ==
    /\ Overwritten
    /\ last.full
    /\ ~OthersUnchanged
    /\ StoredKeys = {last.key}

(***************************************************************************)
(* Claims on the responses of each mode.                                   *)
(***************************************************************************)
KnowledgeResponse == ProducedIn("knowledge")

\* the answers the extractor's pipeline gives, stripped
ExtractedAnswers ==
    {Strip(outcome.answer) : outcome \in RespondExtractorOutcomes \ {PipelineRaises}}

\* C37: a response of mode knowledge has a knowledge intent, the source
\* qa_extraction, an extracted answer as message, and as confidence the
\* minimum of the classification confidence and the extraction confidence,
\* which is above qa_confidence_threshold
C37_KnowledgeResponseWellFormed ==
    KnowledgeResponse =>
        /\ last.out.value.intent \in KNOWLEDGE_INTENTS
        /\ last.out.value.intent = last.classification[1].intent
        /\ last.out.value.source = "qa_extraction"
        /\ last.out.value.message \in ExtractedAnswers
        /\ (last.called = 1 /\ last.out.value.metadata.context_used = last.out.value.intent)
              => /\ last.out.value.message = Strip(last.outcomes[1].answer)
                 /\ last.out.value.metadata.qa_confidence = last.outcomes[1].score
        /\ last.out.value.metadata.classification_confidence
               = last.classification[1].confidence
        /\ last.out.value.metadata.qa_confidence > qa_confidence_threshold
        /\ last.out.value.confidence
               = Min(last.classification[1].confidence,
                     last.out.value.metadata.qa_confidence)
        /\ last.out.value.confidence > qa_confidence_threshold

\* a classification of confidence 1.0 and an extraction of confidence 0.5
C37_Witness ==
    /\ KnowledgeResponse
    /\ last.classification[1].confidence = One
    /\ last.out.value.metadata.qa_confidence = Frac(1, 2)
    /\ last.out.value.confidence = Frac(1, 2)
    /\ last.out.value.message = "29 dollars"

\* the reason the metadata of a fallback response gives
FallbackReason == last.out.value.metadata.fallback_reason

\* C38: the fallback_reason of a fallback response is "unknown_intent" only
\* when the intent is in neither the knowledge nor the conversational set,
\* and "low_confidence" only when the confidence is not above
\* qa_confidence_threshold
C38_FallbackReasonStatesTheCause ==
    FallbackComposed =>
        /\ FallbackReason = "unknown_intent"
              => last.out.value.intent \notin KNOWLEDGE_INTENTS \cup CONVERSATIONAL_INTENTS
        /\ FallbackReason = "low_confidence"
              => ~(last.out.value.confidence > qa_confidence_threshold)

\* the reason as coded: the confidence alone decides it, and a knowledge
\* intent is reported as unknown_intent when its extraction gave no answer
C38_FallbackReasonFollowsConfidence ==
    FallbackComposed =>
        /\ FallbackReason = (IF last.out.value.confidence < qa_confidence_threshold
                             THEN "low_confidence"
                             ELSE "unknown_intent")
        /\ last.out.value.intent \notin CONVERSATIONAL_INTENTS
        /\ (FallbackReason = "unknown_intent"
              /\ last.out.value.intent \in KNOWLEDGE_INTENTS
              /\ last.out.value.confidence > qa_confidence_threshold)
              => last.mode = Some("knowledge")

\* a knowledge intent classified above the threshold whose extraction gave
\* no answer, reported as unknown_intent
C38_KnowledgeIntentReportedUnknown ==
    /\ FallbackComposed
    /\ last.mode = Some("knowledge")
    /\ last.out.value.intent \in KNOWLEDGE_INTENTS
    /\ last.out.value.confidence > qa_confidence_threshold
    /\ FallbackReason = "unknown_intent"

(***************************************************************************)
(* Claims on the two maps of the Classification Cache.                     *)
(***************************************************************************)
\* the keys of a map in the order of their insertion
KeyOrder(items) == [i \in DOMAIN items |-> items[i].key]

\* what a set called in this state works on once the expired entries are
\* removed
CleanedNow == _cleanup_expired(SimpleCacheValue, now)

\* C39: after any sequence of get, set and clear on the Classification
\* Cache the values and the timestamps are stored under the same keys, so
\* a set that finds the values at capacity finds a timestamp to take the
\* oldest key from
C39_ValueKeysAreTimestampKeys ==
    /\ KeysOf(sc_cache) = KeysOf(sc_timestamps)
    /\ KeyOrder(sc_cache) = KeyOrder(sc_timestamps)
    /\ KeysOf(CleanedNow.cache) = KeysOf(CleanedNow.timestamps)
    /\ Len(CleanedNow.cache) >= max_size => CleanedNow.timestamps # <<>>

\* a set that found the values at capacity, took the oldest key from the
\* timestamps and stored its own in both maps
C39_Witness ==
    /\ last.op = "set"
    /\ last.cache = "SimpleCache"
    /\ last.full
    /\ Len(sc_cache) = max_size
    /\ Len(sc_timestamps) = max_size
    /\ HasKey(sc_cache, last.key)
    /\ HasKey(sc_timestamps, last.key)

(***************************************************************************)
(* The service as a whole is the chat service above.                       *)
(***************************************************************************)
Init == InitRespond

Next == NextRespond

Spec == Init /\ [][Next]_vars
====
